---- MODULE Spec2Model ----
(***************************************************************************)
(* A model of the flycatcher front end: the AST -> HIR lowerer             *)
(* (compiler/src/lib.rs) and the Pratt parser (parser/src/lib.rs).         *)
(***************************************************************************)
EXTENDS Integers, Sequences, FiniteSets, TLC

(***************************************************************************)
(* Bounds of the model.                                                    *)
(***************************************************************************)
\* number of top-level AST items of a lowered program
MaxItems == 2

\* number of tokens of the sources made of every token sequence
MaxTokens == 3

\* number of postfix operators after `fn`
MaxChain == 4

\* number of `else` branches after an `if`
MaxBranches == 2

\* number of diagnostics a loop that does not end is followed for
MaxDiagnostics == 4

\* number of statements and standalone `;` in a statement list
MaxStatements == 2

\* number of diagnostics a Context buffers
MaxBuffered == 2

\* number of diagnostics rendered to the terminal
MaxRendered == 4

\* number of properties of a construct
MaxProperties == 3

\* number of characters of the sources of the hand-written lexer
MaxChars == 3

(***************************************************************************)
(* State.                                                                  *)
(***************************************************************************)
VARIABLES
    \* the lowerer (compiler/src/lib.rs)
    ast,          \* the Vec<AstMeta> given to convert()
    symbols,      \* FlycatcherFrontend::symbols
    hir,          \* FlycatcherFrontend::hir
    diagnostics,  \* FlycatcherFrontend::diagnostics
    successful,   \* FlycatcherFrontend::successful
    pc,           \* where convert() is: "resolve", "resolved", "convert", "done", "panicked"
    i,            \* index of the loop that is running (1-based)
    \* the parser (parser/src/lib.rs)
    source,       \* the tokens the lexer yields for context.source
    entry,        \* the public function called: "parse" or "parse_expression"
    parser,       \* Parser: lexer position and span, comments, successful,
                  \* and the diagnostics it pushed to context.diagnostics
    parse_ast,    \* the local `ast` of parse()
    result,       \* what the called function returned
    frame,        \* the `close` and `state` of a loop of parse_list that does not end
    ppc,          \* where the call is: "parse", "parse_expression", "parse_list",
                  \* "done", "panicked"
    \* the diagnostic context (diagnostic/src/lib.rs)
    context_diagnostics,  \* Context::diagnostics
    terminal,     \* what has been written to stderr and stdout, in order
    rpc,          \* the last call on the context: "new", "pushed", "emitted",
                  \* "flushed", or "panicked" (a write failed)
    \* the size of a construct (flyc-types/src/construct.rs, cstruct.rs)
    owner,        \* whose method is running: "Construct" or "CStruct"
    properties,   \* Construct::properties or CStruct::properties, the type of each
    bits,         \* 32 or 64: calculate_32bit_size or calculate_64bit_size is running
    size,         \* the local `size`, and the returned value at the end
    prop_i,       \* the local `i`
    lpc,          \* where the call is: "loop", "done", "panicked"
    \* the hand-written lexer (compiler/src/lexer/mod.rs)
    lexer,        \* Lexer: chars and loc
    lexed,        \* the tokens next() has returned, each with its loc
    xpc           \* the last call of next(): "ready" (it returned Some),
                  \* "exhausted" (None), "panicked" or "diverged"

lowerer_vars == <<ast, symbols, hir, diagnostics, successful, pc, i>>

parser_vars == <<source, entry, parser, parse_ast, result, frame, ppc>>

reporter_vars == <<context_diagnostics, terminal, rpc>>

layout_vars == <<owner, properties, bits, size, prop_i, lpc>>

lexer_vars == <<lexer, lexed, xpc>>

vars == <<lowerer_vars, parser_vars, reporter_vars, layout_vars, lexer_vars>>

(***************************************************************************)
(* Shared helpers.                                                         *)
(***************************************************************************)
\* Option::None
None == [k |-> "None"]

\* the value a Rust panic (unwrap on None) stands for in a computation
Panic == "panic"

\* codespan Label: a style and a byte range <<start, end>>
Label(style, range) == [style |-> style, range |-> range]

\* codespan Diagnostic::error().with_code(..).with_labels(..)
Diagnostic(code, labels) == [code |-> code, labels |-> labels]

\* a 64-bit integer, as its four 16-bit limbs, most significant first;
\* u64(n) is the value n < 2^16
u64(n) == <<0, 0, 0, n>>

\* u64::MAX, i64::MAX and i64::MAX + 1
u64_MAX == <<65535, 65535, 65535, 65535>>
i64_MAX == <<32767, 65535, 65535, 65535>>
i64_MAX_plus_1 == <<32768, 0, 0, 0>>

\* the value is at most i64::MAX: its most significant bit is clear
FitsI64(v) == v[1] <= 32767

(***************************************************************************)
(* The lowerer: AST items (flycatcher_parser::ast::Ast with a range).      *)
(***************************************************************************)
Names == {"x", "y"}

ArithOps == {"Add", "Subtract", "Multiply", "Divide"}

BooleanLiteral(b) == [k |-> "BooleanLiteral", v |-> b]
IntegerLiteral(v) == [k |-> "IntegerLiteral", v |-> v]
FloatLiteral == [k |-> "FloatLiteral"]
IdentifierLiteral(n) == [k |-> "IdentifierLiteral", n |-> n]
StringLiteral == [k |-> "StringLiteral"]
BinaryExpression(op, l, r) == [k |-> "BinaryExpression", op |-> op, l |-> l, r |-> r]

\* operands of the generated expressions
Idents == {IdentifierLiteral(n) : n \in Names}
Values == {IntegerLiteral(u64(1)), IntegerLiteral(u64(2)), FloatLiteral, BooleanLiteral(TRUE)}
Leaves == Idents \cup Values \cup {StringLiteral}

\* the top-level items the lowerer is run on
Items ==
    \* assignments of a leaf
    {BinaryExpression("Equals", t, v) : t \in Idents, v \in Leaves}
    \* assignments of an arithmetic expression
    \cup {BinaryExpression("Equals", t, BinaryExpression("Add", a, b)) :
            t \in Idents,
            a \in Idents \cup {IntegerLiteral(u64(1))},
            b \in {IntegerLiteral(u64(2)), FloatLiteral, IdentifierLiteral("x")}}
    \* an assignment whose value is an assignment
    \cup {BinaryExpression("Equals", t, BinaryExpression("Equals", u, IntegerLiteral(u64(1)))) :
            t \in Idents, u \in Idents}
    \* an assignment to something that is not a name
    \cup {BinaryExpression("Equals", IntegerLiteral(u64(1)), IntegerLiteral(u64(2)))}
    \* expression statements
    \cup {IdentifierLiteral("x"), IntegerLiteral(u64(1)), StringLiteral}
    \* integer literals at and above i64::MAX
    \cup {IntegerLiteral(i64_MAX), IntegerLiteral(u64_MAX),
          BinaryExpression("Equals", IdentifierLiteral("x"), IntegerLiteral(i64_MAX_plus_1))}
    \cup {BinaryExpression(op, IdentifierLiteral("x"), b) :
            op \in {"Add", "Divide"}, b \in {IntegerLiteral(u64(2)), FloatLiteral}}
    \cup {BinaryExpression("Multiply",
            BinaryExpression("Equals", IdentifierLiteral("x"), IntegerLiteral(u64(1))),
            IntegerLiteral(u64(2)))}
    \* an operator the lowerer does not support
    \cup {BinaryExpression("Less", IdentifierLiteral("x"), IntegerLiteral(u64(2))),
          BinaryExpression("Equals", IdentifierLiteral("y"),
            BinaryExpression("Less", IntegerLiteral(u64(1)), IntegerLiteral(u64(2))))}

\* AstMeta: gives every node of a shape its range, the node starting at byte s
\* (a leaf is one byte wide, an operator one byte between its operands)
RECURSIVE Place(_, _)
Place(sh, s) ==
    IF sh.k = "BinaryExpression"
    THEN LET l == Place(sh.l, s)
             r == Place(sh.r, l.range[2] + 1)
         IN  [k |-> "BinaryExpression", op |-> sh.op, l |-> l, r |-> r,
              range |-> <<s, r.range[2]>>]
    ELSE sh @@ [range |-> <<s, s + 1>>]

\* the items of a program one after the other, each followed by one byte (`;`)
RECURSIVE PlaceProgram(_, _)
PlaceProgram(shapes, s) ==
    IF shapes = <<>> THEN <<>>
    ELSE LET first == Place(Head(shapes), s)
         IN  <<first>> \o PlaceProgram(Tail(shapes), first.range[2] + 1)

Programs == UNION {[1..n -> Items] : n \in 0..MaxItems}

(***************************************************************************)
(* The lowerer: HIR and symbol table.                                      *)
(***************************************************************************)
\* VariableType, and the absence of a key in the HashMap
Absent == [k |-> "Absent"]
Declared(t) == [k |-> "Declared", t |-> t]
Defined(t, c, idx) == [k |-> "Defined", t |-> t, c |-> c, idx |-> idx]

\* HirMeta::new(range, filename, item)
HirLeaf(kind, range) == [k |-> kind, range |-> range]
\* Hir::Integer(i) in a HirMeta: the i64 slot holds the bits of i
HirInteger(v, range) == [k |-> "Integer", v |-> v, range |-> range]
HirNamed(n, range) == [k |-> "Named", n |-> n, range |-> range]
HirBinary(kind, l, r, range) == [k |-> kind, l |-> l, r |-> r, range |-> range]

\* Hir::get_type: Named looks the symbol up (unwrap), arithmetic takes its
\* left operand's type
RECURSIVE get_type(_, _)
\* the arm of get_type for Hir::Set: the type of the variable that is set
get_type_of_set(h, syms) == get_type(h.l, syms)

get_type(h, syms) ==
    CASE h.k = "Boolean" -> "Boolean"
      [] h.k = "Integer" -> "Size"
      [] h.k = "UnsignedInteger" -> "Usize"
      [] h.k = "Float" -> "Float64"
      [] h.k = "Named" -> IF syms[h.n].k = "Absent" THEN Panic ELSE syms[h.n].t
      [] h.k \in ArithOps -> get_type(h.l, syms)
      [] h.k = "Set" -> get_type_of_set(h, syms)

\* the severity of a diagnostic of the lowerer: each is built with
\* Diagnostic::error()
severity(d) == "Error"

\* the result of a lowering function: its return value, the frontend's
\* fields after the call, and whether the call panicked
Ret(res, self) == [res |-> res, self |-> self, panic |-> FALSE]
Panicked(self) == [res |-> None, self |-> self, panic |-> TRUE]

\* mutant: the flag is cleared and the diagnostic is not pushed
Fail_silent(self, code, labels) == [self EXCEPT !.successful = FALSE]

\* self.successful = false; self.diagnostics.push(diagnostic)
Fail(self, code, labels) ==
    [self EXCEPT !.successful = FALSE,
                 !.diagnostics = Append(@, Diagnostic(code, labels))]

\* mutant: the diagnostic is pushed whether or not lowering has failed before
FailOnce_always(self, code, labels) == Fail(self, code, labels)

\* `if self.successful { self.successful = false; push(..) }`
FailOnce(self, code, labels) ==
    IF self.successful THEN Fail(self, code, labels) ELSE self

\* the reference counter of a read symbol after the read (`*c += 1`)
CountRead(c) == c + 1

\* FlycatcherFrontend::ast_literal
ast_literal(node, self) ==
    CASE node.k = "BooleanLiteral" -> Ret(HirLeaf("Boolean", node.range), self)
      [] node.k = "IntegerLiteral" -> Ret(HirInteger(node.v, node.range), self)
      [] node.k = "FloatLiteral" -> Ret(HirLeaf("Float", node.range), self)
      [] node.k = "IdentifierLiteral" ->
            LET v == self.symbols[node.n] IN
            CASE v.k = "Declared" ->
                    Ret(None, Fail(self, "FC0018", <<Label("primary", node.range)>>))
              [] v.k = "Defined" ->
                    Ret(HirNamed(node.n, node.range),
                        [self EXCEPT !.symbols[node.n] = Defined(v.t, CountRead(v.c), v.idx)])
              [] OTHER ->
                    Ret(None, Fail(self, "FC0017", <<Label("primary", node.range)>>))
      [] OTHER -> Ret(None, self)

\* mutant: the operand types are not compared
TypesDiffer_unchecked(left_type, right_type) == FALSE

\* the comparison of the two operand types of an arithmetic expression
TypesDiffer(left_type, right_type) == right_type # left_type

\* mutant: a value of any type is accepted
ValueTypeDiffers_never(value_type, desired_type) == FALSE

\* the comparison of a new value's type with the variable's type
ValueTypeDiffers(value_type, desired_type) == value_type # desired_type

\* mutant: a successful assignment leaves its target only declared
DefinedBySet_declared(desired_type, hirlen) == Declared(desired_type)

\* the symbol a successful assignment leaves for its target
DefinedBySet(desired_type, hirlen) == Defined(desired_type, 0, hirlen)

\* mutant: only the whole expression is labelled
type_mismatch_labels_whole(l_range, r_range, range) == <<Label("primary", range)>>

\* the labels of FC0021: label, label2, label3
type_mismatch_labels(l_range, r_range, range) ==
    <<Label("secondary", l_range), Label("secondary", r_range), Label("primary", range)>>

RECURSIVE ast_expression(_, _)

\* ast_expression, the arm for the operators + - * /
ast_arithmetic(node, self) ==
    LET l == ast_expression(node.l, self) IN
    IF l.panic THEN l
    ELSE IF l.res = None
    THEN Ret(None, FailOnce(l.self, "FC0020", <<Label("primary", node.range)>>))
    ELSE
    LET r == ast_expression(node.r, l.self) IN
    IF r.panic THEN r
    ELSE IF r.res = None
    THEN Ret(None, FailOnce(r.self, "FC0020", <<Label("primary", node.range)>>))
    ELSE
    LET left_type == get_type(l.res, r.self.symbols)
        right_type == get_type(r.res, r.self.symbols)
    IN  IF left_type = Panic \/ right_type = Panic THEN Panicked(r.self)
        ELSE IF TypesDiffer(left_type, right_type)
        THEN Ret(None, Fail(r.self, "FC0021",
                    type_mismatch_labels(l.res.range, r.res.range, node.range)))
        ELSE Ret(HirBinary(node.op, l.res, r.res, node.range), r.self)

\* ast_expression, the arm for the operator =
ast_set(node, self) ==
    IF node.l.k # "IdentifierLiteral"
    THEN Ret(None, Fail(self, "FC0023", <<Label("primary", node.l.range)>>))
    ELSE
    LET n == node.l.n
        r == ast_expression(node.r, self)
    IN
    IF r.panic THEN r
    ELSE IF r.res = None
    THEN Ret(None, FailOnce(r.self, "FC0020", <<Label("primary", node.range)>>))
    ELSE IF r.self.symbols[n].k = "Absent" THEN Panicked(r.self)
    ELSE
    LET desired_type == r.self.symbols[n].t
        value_type == get_type(r.res, r.self.symbols)
    IN  IF value_type = Panic THEN Panicked(r.self)
        ELSE IF ValueTypeDiffers(value_type, desired_type)
        THEN Ret(None, Fail(r.self, "FC0025",
                    <<Label("primary", node.range), Label("primary", r.res.range)>>))
        ELSE Ret(HirBinary("Set", HirNamed(n, node.l.range), r.res, node.range),
                 [r.self EXCEPT !.symbols[n] = DefinedBySet(desired_type, r.self.hirlen)])

\* FlycatcherFrontend::ast_expression
ast_expression(node, self) ==
    LET lit == ast_literal(node, self) IN
    IF lit.res # None THEN lit
    ELSE IF ~lit.self.successful THEN Ret(None, lit.self)
    ELSE IF node.k # "BinaryExpression" THEN Ret(None, lit.self)
    ELSE IF node.op \in ArithOps THEN ast_arithmetic(node, lit.self)
    ELSE IF node.op = "Equals" THEN ast_set(node, lit.self)
    ELSE Ret(None, Fail(lit.self, "FC0019", <<Label("primary", node.range)>>))

\* CraneliftBackend::compile, the match on an element of frontend.hir:
\* whether it reaches one of its two aborts
compile_aborts(h) ==
    IF h.k = "Set" THEN h.l.k # "Named" ELSE TRUE

\* one iteration of the loop of resolve_symbols over `item`:
\* next is "continue", "break" or "panic"
resolve_item(item, self) ==
    IF item.k # "BinaryExpression" THEN [self |-> self, next |-> "continue"]
    ELSE IF item.op # "Equals" THEN [self |-> self, next |-> "continue"]
    ELSE IF item.l.k # "IdentifierLiteral"
    THEN [self |-> Fail(self, "FC0023", <<Label("primary", item.l.range)>>),
          next |-> "break"]
    ELSE IF self.symbols[item.l.n].k # "Absent"
    THEN [self |-> self, next |-> "continue"]
    ELSE
    LET t == ast_expression(item.r, self) IN
    IF t.panic THEN [self |-> t.self, next |-> "panic"]
    ELSE IF t.res # None
    THEN LET var_type == get_type(t.res, t.self.symbols) IN
         IF var_type = Panic THEN [self |-> t.self, next |-> "panic"]
         ELSE [self |-> [t.self EXCEPT !.symbols[item.l.n] = Declared(var_type)],
               next |-> "continue"]
    ELSE IF t.self.successful
    THEN [self |-> Fail(t.self, "FC0024", <<Label("primary", item.r.range)>>),
          next |-> "break"]
    ELSE [self |-> t.self, next |-> "continue"]

(***************************************************************************)
(* The parser: tokens and the lexer.                                       *)
(***************************************************************************)
\* a token of the lexer: its kind (flycatcher_lexer::Token), its slice and
\* the length of the slice in bytes
Tok(t, slice, len) == [t |-> t, slice |-> slice, len |-> len]

\* Token::as_string is Some for these tokens
HasAsString ==
    {"LCurly", "RCurly", "LBrack", "RBrack", "LParen", "RParen", "EqualsEquals",
     "ExclamationEquals", "GreaterEquals", "LessEquals", "Greater", "Less",
     "Period", "Comma", "Colon", "Exclamation", "Equals", "Plus", "Minus",
     "Asterisk", "Slash", "Percent", "Caret", "TrueKeyword", "FalseKeyword"}

\* Token::as_name is Some for these tokens
HasAsName ==
    {"Identifier", "ConstructIdentifier", "PreprocessorIdentifier", "String",
     "Number", "DeclareKeyword"} \cup HasAsString

\* Opcode::from_token ("None" when the token is no operator)
from_token(tok) ==
    CASE tok = "Colon" -> "Colon"
      [] tok = "Period" -> "Period"
      [] tok = "LBrack" -> "Subscript"
      [] tok = "LParen" -> "Call"
      [] tok = "EqualsEquals" -> "EqualsEquals"
      [] tok = "Exclamation" -> "Exclamation"
      [] tok = "ExclamationEquals" -> "ExclamationEquals"
      [] tok = "GreaterEquals" -> "GreaterEquals"
      [] tok = "LessEquals" -> "LessEquals"
      [] tok = "Less" -> "Less"
      [] tok = "Greater" -> "Greater"
      [] tok = "AndAnd" -> "AndAnd"
      [] tok = "OrOr" -> "OrOr"
      [] tok = "Caret" -> "Caret"
      [] tok = "Not" -> "Not"
      [] tok = "Equals" -> "Equals"
      [] tok = "Plus" -> "Plus"
      [] tok = "Minus" -> "Minus"
      [] tok = "Asterisk" -> "Asterisk"
      [] tok = "Slash" -> "Slash"
      [] tok = "Percent" -> "Percent"
      [] OTHER -> "None"

\* Opcode::infix_precedence: <<left, right>>, or <<>> for None
infix_precedence(op) ==
    CASE op = "Period" -> <<100, 99>>
      [] op = "Not" -> <<93, 94>>
      [] op \in {"Asterisk", "Slash", "Percent"} -> <<91, 92>>
      [] op \in {"Plus", "Minus"} -> <<89, 90>>
      [] op \in {"GreaterGreater", "LessLess"} -> <<87, 88>>
      [] op \in {"Greater", "Less", "GreaterEquals", "LessEquals"} -> <<85, 86>>
      [] op \in {"EqualsEquals", "ExclamationEquals"} -> <<83, 84>>
      [] op = "And" -> <<81, 82>>
      [] op = "Caret" -> <<79, 80>>
      [] op = "Or" -> <<77, 78>>
      [] op = "AndAnd" -> <<75, 76>>
      [] op = "OrOr" -> <<73, 74>>
      [] op = "Colon" -> <<71, 72>>
      [] op = "Equals" -> <<69, 70>>
      [] OTHER -> <<>>

\* Opcode::postfix_precedence: <<power>>, or <<>> for None
postfix_precedence(op) ==
    CASE op = "Subscript" -> <<100>>
      [] op = "Call" -> <<98>>
      [] OTHER -> <<>>

\* mutant: the prefix + and - bind more tightly than every infix operator
prefix_precedence_tightest(op) ==
    CASE op = "Exclamation" -> <<98>>
      [] op \in {"Plus", "Minus"} -> <<101>>
      [] OTHER -> <<>>

\* Opcode::prefix_precedence: <<power>>, or <<>> for None
prefix_precedence(op) ==
    CASE op = "Exclamation" -> <<98>>
      [] op \in {"Plus", "Minus"} -> <<97>>
      [] OTHER -> <<>>

\* byte offset of the k-th token: tokens are separated by one skipped blank
RECURSIVE Offset(_)
Offset(k) == IF k = 1 THEN 0 ELSE Offset(k - 1) + source[k - 1].len + 1

\* the span of the k-th token
TokenSpan(k) == <<Offset(k), Offset(k) + source[k].len>>

\* the length of the source string
SourceEnd == IF source = <<>> THEN 0 ELSE TokenSpan(Len(source))[2]

\* Lexer::peek: the kind of the next token, "EOF" for None; does not advance
lexer_peek(p) == IF p.pos < Len(source) THEN source[p.pos + 1].t ELSE "EOF"

\* Lexer::next: advances to the next token; at the end of the source the span
\* becomes the empty span at the end
lexer_next(p) ==
    IF p.pos < Len(source)
    THEN [p EXCEPT !.pos = @ + 1, !.span = TokenSpan(p.pos + 1)]
    ELSE [p EXCEPT !.span = <<SourceEnd, SourceEnd>>]

\* Lexer::slice: the slice of the token the lexer is at
lexer_slice(p) == source[p.pos].slice

\* self.context.diagnostics.push(diagnostic)
Push(p, code, labels) ==
    [p EXCEPT !.diagnostics = Append(@, Diagnostic(code, labels))]

\* self.context.diagnostics.push(diagnostic); self.successful = false
Error(p, code, labels) ==
    [Push(p, code, labels) EXCEPT !.successful = FALSE]

\* `if self.successful { push(diagnostic); self.successful = false }`
ErrorOnce(p, code, labels) ==
    IF p.successful THEN Error(p, code, labels) ELSE p

\* str::trim_start_matches('/') on a slice given as a sequence of characters
RECURSIVE trim_start_slashes(_)
trim_start_slashes(chars) ==
    IF chars # <<>> /\ Head(chars) = "/" THEN trim_start_slashes(Tail(chars)) ELSE chars

\* the text pushed to self.comments for a doc comment token
comment_text(slice) ==
    LET t == trim_start_slashes(slice) IN
    IF t # <<>> /\ Head(t) = " " THEN Tail(t) ELSE t

\* the labels of the E0001 diagnostic of eat(): the whole string, and its
\* opening quote
unclosed_string_labels(span) ==
    <<Label("primary", span), Label("secondary", <<span[1], span[1] + 1>>)>>

\* Parser::eat: [ok |-> the returned bool, p |-> the parser after the call]
RECURSIVE eat(_, _, _)
eat(expect, doc, p) ==
    LET tok == lexer_peek(p)
        n == lexer_next(p)
    IN
    CASE tok = "EOF" ->
            [ok |-> FALSE, p |-> Error(n, "E0003", <<Label("primary", n.span)>>)]
      [] tok = expect -> [ok |-> TRUE, p |-> n]
      [] tok = "DocComment" ->
            LET d == IF doc THEN n ELSE Error(n, "E0004", <<Label("primary", n.span)>>)
            IN  eat(expect, doc,
                    [d EXCEPT !.comments = Append(@, comment_text(lexer_slice(n)))])
      [] tok \in {"Whitespace", "Linebreak"} -> eat(expect, doc, n)
      [] tok = "InvalidString" ->
            LET d1 == Push(n, "E0001", unclosed_string_labels(n.span))
                d2 == IF expect # "String"
                      THEN Push(d1, "E0002", <<Label("primary", n.span)>>)
                      ELSE d1
            IN  [ok |-> FALSE, p |-> [d2 EXCEPT !.successful = FALSE]]
      [] tok = "Invalid" ->
            [ok |-> FALSE,
             p |-> Error(n, "E0005",
                    IF expect \in HasAsName
                    THEN <<Label("primary", n.span), Label("secondary", n.span)>>
                    ELSE <<Label("primary", n.span)>>)]
      [] OTHER ->
            [ok |-> FALSE, p |-> Error(n, "E0006", <<Label("primary", n.span)>>)]

\* Parser::peek_token: skips the tokens the parser does not see and peeks
RECURSIVE peek_token(_)
peek_token(p) ==
    LET t == lexer_peek(p) IN
    IF t \in {"Whitespace", "Linebreak", "DocComment"}
    THEN peek_token(lexer_next(p))
    ELSE [tok |-> t, p |-> p]


(***************************************************************************)
(* The parser: AST nodes and the parsing functions.  Every function takes  *)
(* the parser `p` and gives the returned value `res`, the parser after the *)
(* call, and how the call ended: "ok" (it returned), "loops" (it is in a   *)
(* loop that does not end) or "panic".                                     *)
(***************************************************************************)
\* AstMeta::new(range, item): semicolon is false
AstMeta(range, item) == item @@ [range |-> range, semicolon |-> FALSE]

\* AstMeta::semicolon
with_semicolon(node) == [node EXCEPT !.semicolon = TRUE]

StringLiteralOf(chars) == [k |-> "StringLiteral", v |-> chars]
ArrayLiteral(items) == [k |-> "ArrayLiteral", items |-> items]
UnaryExpr(op, e) == [k |-> "UnaryExpr", op |-> op, e |-> e]
BinaryExpr(op, l, r) == [k |-> "BinaryExpr", op |-> op, l |-> l, r |-> r]
SubscriptExpr(l, idx) == [k |-> "SubscriptExpr", l |-> l, idx |-> idx]
CallExpr(l, args) == [k |-> "CallExpr", l |-> l, args |-> args]
IfStmnt(expr, block, branches) ==
    [k |-> "IfStmnt", expr |-> expr, block |-> block, branches |-> branches]
WhileStmnt(expr, block) == [k |-> "WhileStmnt", expr |-> expr, block |-> block]
Block(block) == [k |-> "Block", block |-> block]

\* Option::Some of a Vec
Some(items) == [k |-> "Some", items |-> items]

Returned(res, p) == [res |-> res, p |-> p, st |-> "ok"]
Loops(fr, p) == [res |-> None, p |-> p, st |-> "loops", frame |-> fr]
Aborts(p) == [res |-> None, p |-> p, st |-> "panic"]

\* `slice.contains('e') || slice.contains('E') || slice.contains('.')`, over the
\* number slices of the sources
is_float(slice) == slice \in {"2.0", "1e3"}

\* slice.parse::<u64>(): <<value>>, or <<>> for Err, over the number slices of
\* the sources
parse_u64(slice) ==
    CASE slice = "0" -> <<u64(0)>>
      [] slice = "1" -> <<u64(1)>>
      [] slice = "2" -> <<u64(2)>>
      [] OTHER -> <<>>

\* one iteration of the loop of parse_list, from the loop state `state`:
\* the second `else if state == 0` arm can not run, so no item is ever pushed
parse_list_iteration(close, state, p) ==
    LET pk == peek_token(p) IN
    IF pk.tok = "EOF"
    THEN [next |-> "continue", state |-> state,
          p |-> Error(pk.p, "E0014", <<Label("primary", pk.p.span)>>)]
    ELSE IF pk.tok = close
    THEN [next |-> "break", state |-> state, p |-> lexer_next(pk.p)]
    ELSE IF state = 0
    THEN [next |-> "continue", state |-> 1, p |-> eat("Comma", FALSE, pk.p).p]
    ELSE [next |-> "continue", state |-> state, p |-> pk.p]

\* the loop of parse_list: an iteration that continues with the same loop
\* state and the same lexer position is followed by the same iteration
RECURSIVE parse_list_loop(_, _, _)
parse_list_loop(close, state, p) ==
    LET it == parse_list_iteration(close, state, p) IN
    IF it.next = "break" THEN Returned(Some(<<>>), it.p)
    ELSE IF it.state = state /\ it.p.pos = p.pos
    THEN Loops([close |-> close, state |-> state], p)
    ELSE parse_list_loop(close, it.state, it.p)

\* Parser::parse_list
parse_list(close, p) == parse_list_loop(close, 0, p)

RECURSIVE parse_binary(_, _)
RECURSIVE binary_loop(_, _, _)
RECURSIVE parse_block_loop(_, _)
RECURSIVE if_branches(_, _, _, _, _)

\* Parser::parse_expression
parse_expression(p) == parse_binary(0, peek_token(p).p)

\* Parser::parse_block
parse_block(p) == parse_block_loop(<<>>, p)

\* the end of an `if`, `else if` or `while` header: b is what parse_block
\* returned for the block after the condition expr
conditional(expr, b) ==
    IF b.st # "ok" THEN b
    ELSE IF b.res = None THEN Returned(None, b.p)
    ELSE Returned([expr |-> expr, block |-> b.res.items], b.p)

\* the `{` and the block after the condition e that parse_expression returned
block_of_condition(e) ==
    IF e.st # "ok" THEN e
    ELSE IF e.res = None
    THEN Returned(None, ErrorOnce(e.p, "E0010", <<Label("primary", e.p.span)>>))
    ELSE LET c == eat("LCurly", FALSE, e.p) IN
         IF ~c.ok THEN Returned(None, c.p)
         ELSE conditional(e.res, parse_block(c.p))

\* the condition, the `{` and the block of an `if`, `else if` or `while`:
\* res is [expr, block], or None with the diagnostics pushed
condition_and_block(p) == block_of_condition(parse_expression(p))

\* mutant: an `else if` is recorded as the block of an `else`
else_if_branch_as_block(span, cb) ==
    AstMeta(<<span[1], cb.p.span[2]>>, Block(cb.res.block))

\* parse_primary, the branch pushed for an `else if`: its span starts where
\* the span of the lexer was before the `else`
else_if_branch(span, cb) ==
    AstMeta(<<span[1], cb.p.span[2]>>, IfStmnt(cb.res.expr, cb.res.block, <<>>))

\* parse_primary, after `else if`: cb is the condition and block that follow
with_else_if(start, expr, block, branches, span, cb) ==
    IF cb.st # "ok" \/ cb.res = None THEN cb
    ELSE if_branches(start, expr, block, Append(branches, else_if_branch(span, cb)), cb.p)

\* parse_primary, after `else {`: b is what parse_block returned
with_else(start, expr, block, branches, span, b) ==
    IF b.st # "ok" THEN b
    ELSE IF b.res = None THEN Returned(None, b.p)
    ELSE if_branches(start, expr, block,
            Append(branches, AstMeta(<<span[1], b.p.span[2]>>, Block(b.res.items))), b.p)

\* parse_primary, the loop over the `else` branches of an `if`
if_branches(start, expr, block, branches, p) ==
    LET pk == peek_token(p) IN
    IF pk.tok # "ElseKeyword"
    THEN Returned(AstMeta(<<start, pk.p.span[2]>>, IfStmnt(expr, block, branches)), pk.p)
    ELSE
    LET span == pk.p.span
        pk2 == peek_token(lexer_next(pk.p))
    IN
    IF pk2.tok = "EOF"
    THEN Returned(None, Error(pk2.p, "E0012", <<Label("primary", span)>>))
    ELSE IF pk2.tok = "IfKeyword"
    THEN with_else_if(start, expr, block, branches, span,
                      condition_and_block(lexer_next(pk2.p)))
    ELSE IF pk2.tok = "LCurly"
    THEN with_else(start, expr, block, branches, span, parse_block(lexer_next(pk2.p)))
    ELSE if_branches(start, expr, block, branches, pk2.p)

\* parse_primary, an `if`: cb is its condition and block
if_statement(start, cb) ==
    IF cb.st # "ok" \/ cb.res = None THEN cb
    ELSE if_branches(start, cb.res.expr, cb.res.block, <<>>, cb.p)

\* parse_primary, a `while`: cb is its condition and block
while_statement(start, cb) ==
    IF cb.st # "ok" \/ cb.res = None THEN cb
    ELSE Returned(AstMeta(<<start, cb.p.span[2]>>, WhileStmnt(cb.res.expr, cb.res.block)),
                  cb.p)

\* parse_primary, an array literal: t is what parse_list returned
array_literal(start, t) ==
    IF t.st # "ok" \/ t.res = None THEN t
    ELSE Returned(AstMeta(<<start, t.p.span[2]>>, ArrayLiteral(t.res.items)), t.p)

\* Parser::parse_primary
parse_primary(p) ==
    LET pk == peek_token(p)
        tok == pk.tok
        n == lexer_next(pk.p)
    IN
    CASE tok = "EOF" -> Returned(None, pk.p)
      [] tok = "Identifier" ->
            Returned(AstMeta(n.span, IdentifierLiteral(lexer_slice(n))), n)
      [] tok = "TrueKeyword" -> Returned(AstMeta(n.span, BooleanLiteral(TRUE)), n)
      [] tok = "FalseKeyword" -> Returned(AstMeta(n.span, BooleanLiteral(FALSE)), n)
      [] tok = "String" ->
            LET slice == lexer_slice(n) IN
            Returned(AstMeta(n.span, StringLiteralOf(SubSeq(slice, 2, Len(slice) - 1))), n)
      [] tok = "Number" ->
            LET slice == lexer_slice(n) IN
            IF is_float(slice) THEN Returned(AstMeta(n.span, FloatLiteral), n)
            ELSE IF parse_u64(slice) # <<>>
            THEN Returned(AstMeta(n.span, IntegerLiteral(parse_u64(slice)[1])), n)
            ELSE Returned(None, Error(n, "E0007", <<Label("primary", n.span)>>))
      [] tok = "IfKeyword" -> if_statement(pk.p.span[1], condition_and_block(n))
      [] tok = "WhileKeyword" -> while_statement(pk.p.span[1], condition_and_block(n))
      [] tok = "LBrack" -> array_literal(n.span[1], parse_list("RBrack", n))
      [] OTHER -> Returned(None, Error(n, "E0013", <<Label("primary", n.span)>>))

\* parse_binary, a subscript with a value: right is what parse_expression
\* returned for the value
subscript_value(left, min, right) ==
    IF right.st # "ok" THEN right
    ELSE IF right.res = None
    THEN Returned(None, ErrorOnce(right.p, "E0009", <<Label("primary", right.p.span)>>))
    ELSE LET e == eat("RBrack", FALSE, right.p) IN
         binary_loop(AstMeta(<<left.range[1], e.p.span[2]>>, SubscriptExpr(left, right.res)),
                     min, e.p)

\* parse_binary, a subscript; p is just after the `[`
subscript(left, min, p) ==
    LET pk == peek_token(p)
        n == lexer_next(pk.p)
    IN
    IF pk.tok = "EOF"
    THEN Returned(None, Error(pk.p, "E0009", <<Label("primary", pk.p.span)>>))
    ELSE IF pk.tok = "RBrack"
    THEN binary_loop(AstMeta(<<left.range[1], n.span[2]>>, SubscriptExpr(left, None)), min, n)
    ELSE subscript_value(left, min, parse_expression(pk.p))

\* whether an infix operator of left binding power lp ends an operand parsed
\* with the minimum binding power min
binds_too_loosely(lp, min) == lp < min

\* what a postfix `(` does to the expression on its left; p is just after it
call_postfix(left, min, p) == binary_loop(left, min, p)

\* parse_binary, an infix operator: rhs is what parse_binary returned for its
\* right operand
infix_operand(left, min, op, next_op, rhs) ==
    IF rhs.st # "ok" THEN rhs
    ELSE IF rhs.res # None
    THEN binary_loop(AstMeta(<<left.range[1], rhs.p.span[2]>>, BinaryExpr(op, left, rhs.res)),
                     min, rhs.p)
    ELSE IF ~rhs.p.successful THEN binary_loop(left, min, rhs.p)
    ELSE IF next_op \notin HasAsString THEN Aborts(rhs.p)
    ELSE binary_loop(left, min, Error(rhs.p, "E0008", <<Label("primary", rhs.p.span)>>))

\* parse_binary, the loop over the operators that follow `left`
binary_loop(left, min, p) ==
    LET pk == peek_token(p)
        next_op == pk.tok
        op == from_token(next_op)
        n == lexer_next(pk.p)
    IN
    IF next_op = "EOF" \/ op = "None" THEN Returned(left, pk.p)
    ELSE IF postfix_precedence(op) # <<>>
    THEN IF postfix_precedence(op)[1] < min THEN Returned(left, pk.p)
         ELSE IF op = "Subscript" THEN subscript(left, min, n)
         ELSE call_postfix(left, min, n)
    ELSE IF infix_precedence(op) # <<>>
    THEN IF binds_too_loosely(infix_precedence(op)[1], min) THEN Returned(left, pk.p)
         ELSE infix_operand(left, min, op, next_op, parse_binary(infix_precedence(op)[2], n))
    ELSE Returned(left, pk.p)

\* parse_binary, a prefix operator o (token l): rhs is what parse_binary
\* returned for its operand
prefix_operand(l, o, min, start, rhs) ==
    IF rhs.st # "ok" THEN rhs
    ELSE IF rhs.res # None
    THEN binary_loop(AstMeta(<<start, rhs.p.span[2]>>, UnaryExpr(o, rhs.res)), min, rhs.p)
    ELSE IF ~rhs.p.successful THEN Returned(None, rhs.p)
    ELSE IF l \notin HasAsString THEN Aborts(rhs.p)
    ELSE Returned(None, Error(rhs.p, "E0008", <<Label("primary", rhs.p.span)>>))

\* parse_binary, no prefix operator: t is what parse_primary returned
primary_operand(min, t) ==
    IF t.st # "ok" \/ t.res = None THEN t
    ELSE binary_loop(t.res, min, t.p)

\* Parser::parse_binary
parse_binary(min, p) ==
    LET pk == peek_token(p)
        l == pk.tok
        o == from_token(l)
        n == lexer_next(pk.p)
    IN
    IF l = "EOF" THEN Returned(None, pk.p)
    ELSE IF o # "None" /\ prefix_precedence(o) # <<>>
    THEN prefix_operand(l, o, min, n.span[1], parse_binary(prefix_precedence(o)[1], n))
    ELSE primary_operand(min, parse_primary(pk.p))

\* the end of a statement, as parse_block and parse read it: e is what
\* parse_expression returned
statement_end(e) ==
    IF e.st # "ok" THEN e
    ELSE IF e.res = None
    THEN IF e.p.successful
         THEN LET n == lexer_next(e.p) IN
              Returned(None, Error(n, "E0011", <<Label("primary", n.span)>>))
         ELSE Returned(None, e.p)
    ELSE LET pk2 == peek_token(e.p) IN
         IF pk2.tok = "Semicolon"
         THEN Returned(with_semicolon(e.res), lexer_next(pk2.p))
         ELSE Returned(e.res, pk2.p)

\* a statement and the `;` after it, as parse_block and parse read it
statement(p) == statement_end(parse_expression(p))

\* parse_block, after a statement s
block_item(block, s) ==
    IF s.st # "ok" \/ s.res = None THEN s
    ELSE parse_block_loop(Append(block, s.res), s.p)

\* the loop of parse_block
parse_block_loop(block, p) ==
    LET pk == peek_token(p)
        n == lexer_next(pk.p)
    IN
    IF pk.tok = "EOF"
    THEN Returned(None, Error(n, "E0011", <<Label("primary", n.span)>>))
    ELSE IF pk.tok = "RCurly" THEN Returned(Some(block), n)
    ELSE IF pk.tok = "Semicolon" THEN parse_block_loop(block, n)
    ELSE block_item(block, statement(pk.p))

\* parse(), after a statement s: next is "continue", "return" (with res the
\* returned Option), "loops" or "panic"
parse_item(items, s) ==
    IF s.st # "ok" THEN [next |-> s.st, res |-> s, items |-> items, p |-> s.p]
    ELSE IF s.res = None
    THEN [next |-> "return", res |-> None, items |-> items, p |-> s.p]
    ELSE [next |-> "continue", res |-> None, items |-> Append(items, s.res), p |-> s.p]

\* one iteration of the loop of parse()
parse_iteration(items, p) ==
    LET pk == peek_token(p)
        n == lexer_next(pk.p)
    IN
    IF pk.tok = "EOF"
    THEN [next |-> "return", res |-> None, items |-> items,
          p |-> Error(n, "E0011", <<Label("primary", n.span)>>)]
    ELSE IF pk.tok = "RCurly"
    THEN [next |-> "return", res |-> Some(items), items |-> items, p |-> n]
    ELSE parse_item(items, statement(pk.p))

(***************************************************************************)
(* The parser: the sources it is run on.                                   *)
(***************************************************************************)
Word(n, len) == Tok("Identifier", n, len)
Number(n) == Tok("Number", n, 1)

\* the tokens that are infix operators in Opcode::infix_precedence, by length
InfixTokens1 ==
    {"Period", "Not", "Asterisk", "Slash", "Percent", "Plus", "Minus", "Greater",
     "Less", "And", "Caret", "Or", "Colon", "Equals"}
InfixTokens2 ==
    {"GreaterGreater", "LessLess", "GreaterEquals", "LessEquals", "EqualsEquals",
     "ExclamationEquals", "AndAnd", "OrOr"}
InfixTokens == InfixTokens1 \cup InfixTokens2

\* the tokens that are prefix operators in Opcode::prefix_precedence
PrefixTokens == {"Exclamation", "Plus", "Minus"}

\* an operator, bracket, keyword or separator token (the parser uses its slice
\* in messages only; the name of the token stands for it)
Sym(t) ==
    Tok(t, t, CASE t \in InfixTokens2 -> 2
                [] t = "IfKeyword" -> 2
                [] t = "ElseKeyword" -> 4
                [] t = "WhileKeyword" -> 5
                [] OTHER -> 1)

\* `"s"`, the unclosed `"s`, and `/// d`
StringToken == Tok("String", <<"\"", "s", "\"">>, 3)
InvalidStringToken == Tok("InvalidString", <<"\"", "s">>, 2)
DocCommentToken == Tok("DocComment", <<"/", "/", "/", " ", "d">>, 5)

\* every sequence of at most MaxTokens tokens of this alphabet
Alphabet ==
    {Word("a", 1), Number("1"), StringToken, InvalidStringToken, DocCommentToken}
    \cup {Sym(t) : t \in {"Plus", "Equals", "AndAnd", "LParen", "LBrack", "RBrack",
                          "Comma", "Semicolon", "LCurly", "RCurly", "IfKeyword",
                          "ElseKeyword"}}

AnySources == UNION {[1..n -> Alphabet] : n \in 0..MaxTokens}

\* `a p b q c`
InfixSource(p, q) == <<Word("a", 1), Sym(p), Word("b", 1), Sym(q), Word("c", 1)>>

InfixSources == {InfixSource(p, q) : p \in InfixTokens, q \in InfixTokens}

\* `u a q b`
PrefixSource(u, q) == <<Sym(u), Word("a", 1), Sym(q), Word("b", 1)>>

PrefixSources == {PrefixSource(u, q) : u \in PrefixTokens, q \in InfixTokens}

\* `fn` followed by at most MaxChain of `()`, `(arg1, arg2)`, `[0]`, `[]`, `.field`
Postfixes ==
    {<<Sym("LParen"), Sym("RParen")>>,
     <<Sym("LParen"), Word("arg1", 4), Sym("Comma"), Word("arg2", 4), Sym("RParen")>>,
     <<Sym("LBrack"), Number("0"), Sym("RBrack")>>,
     <<Sym("LBrack"), Sym("RBrack")>>,
     <<Sym("Period"), Word("field", 5)>>}

RECURSIVE Chains(_)
Chains(n) ==
    IF n = 0 THEN {<<Word("fn", 2)>>}
    ELSE LET shorter == Chains(n - 1) IN
         shorter \cup {c \o x : c \in shorter, x \in Postfixes}

PostfixSources == Chains(MaxChain)

\* `if e1 { }` followed by at most MaxBranches of `else if e2 { }`, `else { }`,
\* `else` and `else a`, and by nothing or `;`
ElseBranches ==
    {<<Sym("ElseKeyword"), Sym("IfKeyword"), Word("e2", 2), Sym("LCurly"), Sym("RCurly")>>,
     <<Sym("ElseKeyword"), Sym("LCurly"), Sym("RCurly")>>,
     <<Sym("ElseKeyword")>>,
     <<Sym("ElseKeyword"), Word("a", 1)>>}

RECURSIVE IfChains(_)
IfChains(n) ==
    IF n = 0 THEN {<<Sym("IfKeyword"), Word("e1", 2), Sym("LCurly"), Sym("RCurly")>>}
    ELSE LET shorter == IfChains(n - 1) IN
         shorter \cup {c \o x : c \in shorter, x \in ElseBranches}

IfSources == IfChains(MaxBranches) \cup {c \o <<Sym("Semicolon")>> : c \in IfChains(MaxBranches)}

\* statement lists: at most MaxStatements of `;`, `a`, `a;`, `b`, `b;`
StatementPieces ==
    {<<Sym("Semicolon")>>,
     <<Word("a", 1)>>, <<Word("a", 1), Sym("Semicolon")>>,
     <<Word("b", 1)>>, <<Word("b", 1), Sym("Semicolon")>>}

RECURSIVE StatementLists(_)
StatementLists(n) ==
    IF n = 0 THEN {<<>>}
    ELSE LET shorter == StatementLists(n - 1) IN
         shorter \cup {c \o x : c \in shorter, x \in StatementPieces}

\* a statement list at top level, up to the `}` at which parse() returns its
\* items, and as the block of `if e1 { .. }`
TopLevelSources == {body \o <<Sym("RCurly")>> : body \in StatementLists(MaxStatements)}

BlockStart == <<Sym("IfKeyword"), Word("e1", 2), Sym("LCurly")>>

BlockSources ==
    {BlockStart \o body \o <<Sym("RCurly")>> : body \in StatementLists(MaxStatements)}

\* a doc comment where the parser is about to eat() a required token: before
\* the `{` of an `if` and of a `while`, the `]` of a subscript and the `,` of
\* a list; and a doc comment before a statement and inside an expression
ForbiddenDocSources ==
    {<<Sym("IfKeyword"), Word("e1", 2), DocCommentToken, Sym("LCurly"), Sym("RCurly")>>,
     <<Sym("WhileKeyword"), Word("e1", 2), DocCommentToken, Sym("LCurly"), Sym("RCurly")>>,
     <<Word("a", 1), Sym("LBrack"), Number("0"), DocCommentToken, Sym("RBrack")>>,
     <<Word("fn", 2), Sym("LParen"), Word("arg1", 4), DocCommentToken, Sym("Comma"),
       Word("arg2", 4), Sym("RParen")>>}

DocSources ==
    ForbiddenDocSources
    \cup {<<DocCommentToken, Word("a", 1), Sym("Semicolon")>>,
          <<DocCommentToken, DocCommentToken, Word("a", 1), Sym("Plus"), DocCommentToken,
            Word("b", 1)>>}

\* `a t b`, for every token that Opcode::from_token or
\* Opcode::infix_precedence knows as an operator
BinarySource(t) == <<Word("a", 1), Sym(t), Word("b", 1)>>

BinarySources == {BinarySource(t) : t \in InfixTokens \cup PrefixTokens}

Sources ==
    AnySources \cup InfixSources \cup PrefixSources \cup PostfixSources \cup IfSources
    \cup TopLevelSources \cup BlockSources \cup DocSources \cup BinarySources

(***************************************************************************)
(* Idle halves of the state: a run is a call of convert() or of the parser. *)
(***************************************************************************)
\* Parser::new
NewParser ==
    [pos |-> 0, span |-> <<0, 0>>, comments |-> <<>>, successful |-> TRUE,
     diagnostics |-> <<>>]

\* no parser is running
ParserIdle ==
    /\ source = <<>>
    /\ entry = "none"
    /\ parser = NewParser
    /\ parse_ast = <<>>
    /\ result = None
    /\ frame = None
    /\ ppc = "idle"

\* no lowerer is running
LowererIdle ==
    /\ ast = <<>>
    /\ symbols = [n \in Names |-> Absent]
    /\ hir = <<>>
    /\ diagnostics = <<>>
    /\ successful = TRUE
    /\ pc = "idle"
    /\ i = 1

\* no diagnostic context is in use
ReporterIdle ==
    /\ context_diagnostics = <<>>
    /\ terminal = <<>>
    /\ rpc = "idle"

\* no size is being calculated
LayoutIdle ==
    /\ owner = "none"
    /\ properties = <<>>
    /\ bits = 0
    /\ size = 0
    /\ prop_i = 0
    /\ lpc = "idle"

\* no hand-written lexer is running
LexerIdle ==
    /\ lexer = [chars |-> <<>>, loc |-> <<0, 0>>]
    /\ lexed = <<>>
    /\ xpc = "idle"

(***************************************************************************)
(* The lowerer: convert().                                                 *)
(***************************************************************************)
\* the fields of the frontend the lowering functions read and write
Frontend == [symbols |-> symbols, diagnostics |-> diagnostics,
             successful |-> successful, hirlen |-> Len(hir)]

\* FlycatcherFrontend::new, and the AST convert() is called with
Init ==
    /\ \E p \in Programs : ast = PlaceProgram(p, 0)
    /\ symbols = [n \in Names |-> Absent]
    /\ hir = <<>>
    /\ diagnostics = <<>>
    /\ successful = TRUE
    /\ pc = "resolve"
    /\ i = 1
    /\ ParserIdle
    /\ ReporterIdle
    /\ LayoutIdle
    /\ LexerIdle

\* one iteration of the loop of resolve_symbols
ResolveSymbols ==
    /\ pc = "resolve"
    /\ i <= Len(ast)
    /\ LET out == resolve_item(ast[i], Frontend) IN
       /\ symbols' = out.self.symbols
       /\ diagnostics' = out.self.diagnostics
       /\ successful' = out.self.successful
       /\ pc' = CASE out.next = "continue" -> "resolve"
                  [] out.next = "break" -> "resolved"
                  [] out.next = "panic" -> "panicked"
       /\ i' = i + 1
    /\ UNCHANGED <<ast, hir, parser_vars, reporter_vars, layout_vars, lexer_vars>>

\* the loop of resolve_symbols runs out of items
ResolveEnd ==
    /\ pc = "resolve"
    /\ i > Len(ast)
    /\ pc' = "resolved"
    /\ UNCHANGED <<ast, symbols, hir, diagnostics, successful, i, parser_vars, reporter_vars, layout_vars, lexer_vars>>

\* convert(): `if !self.successful { return }` after resolve_symbols
ConvertStart ==
    /\ pc = "resolved"
    /\ pc' = IF successful THEN "convert" ELSE "done"
    /\ i' = 1
    /\ UNCHANGED <<ast, symbols, hir, diagnostics, successful, parser_vars, reporter_vars, layout_vars, lexer_vars>>

\* one iteration of the loop of convert()
Convert ==
    /\ pc = "convert"
    /\ i <= Len(ast)
    /\ LET e == ast_expression(ast[i], Frontend) IN
       IF e.panic
       THEN /\ pc' = "panicked"
            /\ symbols' = e.self.symbols
            /\ diagnostics' = e.self.diagnostics
            /\ successful' = e.self.successful
            /\ UNCHANGED hir
       ELSE IF e.res # None
       THEN /\ hir' = Append(hir, e.res)
            /\ symbols' = e.self.symbols
            /\ diagnostics' = e.self.diagnostics
            /\ successful' = e.self.successful
            /\ pc' = "convert"
       ELSE LET self == FailOnce(e.self, "FC0022", <<Label("primary", ast[i].range)>>) IN
            /\ symbols' = self.symbols
            /\ diagnostics' = self.diagnostics
            /\ successful' = self.successful
            /\ pc' = "convert"
            /\ UNCHANGED hir
    /\ i' = i + 1
    /\ UNCHANGED <<ast, parser_vars, reporter_vars, layout_vars, lexer_vars>>

\* the loop of convert() runs out of items: convert() returns
ConvertEnd ==
    /\ pc = "convert"
    /\ i > Len(ast)
    /\ pc' = "done"
    /\ UNCHANGED <<ast, symbols, hir, diagnostics, successful, i, parser_vars, reporter_vars, layout_vars, lexer_vars>>

Next ==
    \/ ResolveSymbols
    \/ ResolveEnd
    \/ ConvertStart
    \/ Convert
    \/ ConvertEnd

Spec == Init /\ [][Next]_vars

(***************************************************************************)
(* The parser: a call of parse() or of parse_expression().                 *)
(***************************************************************************)
\* Parser::new on a source, and the public function that is called on it
ParserInit ==
    /\ source \in Sources
    /\ entry \in {"parse", "parse_expression"}
    /\ parser = NewParser
    /\ parse_ast = <<>>
    /\ result = None
    /\ frame = None
    /\ ppc = entry
    /\ LowererIdle
    /\ ReporterIdle
    /\ LayoutIdle
    /\ LexerIdle

\* the state after an iteration `it` of the loop of parse()
ParseStepTo(it) ==
    /\ parser' = it.p
    /\ parse_ast' = it.items
    /\ result' = IF it.next = "return" THEN it.res ELSE result
    /\ frame' = IF it.next = "loops" THEN it.res.frame ELSE frame
    /\ ppc' = CASE it.next = "continue" -> "parse"
                [] it.next = "return" -> "done"
                [] it.next = "loops" -> "parse_list"
                [] it.next = "panic" -> "panicked"

\* one iteration of the loop of parse()
ParseStep ==
    /\ ppc = "parse"
    /\ ParseStepTo(parse_iteration(parse_ast, parser))
    /\ UNCHANGED <<source, entry, lowerer_vars, reporter_vars, layout_vars, lexer_vars>>

\* the state after parse_expression() ended as e
ParseExpressionTo(e) ==
    /\ parser' = e.p
    /\ result' = e.res
    /\ frame' = IF e.st = "loops" THEN e.frame ELSE frame
    /\ ppc' = CASE e.st = "ok" -> "done"
                [] e.st = "loops" -> "parse_list"
                [] e.st = "panic" -> "panicked"

\* a call of parse_expression()
ParseExpression ==
    /\ ppc = "parse_expression"
    /\ ParseExpressionTo(parse_expression(parser))
    /\ UNCHANGED <<source, entry, parse_ast, lowerer_vars, reporter_vars, layout_vars, lexer_vars>>

\* one more iteration of a loop of parse_list that does not end
ParseListLoop ==
    /\ ppc = "parse_list"
    /\ LET it == parse_list_iteration(frame.close, frame.state, parser) IN
       /\ Len(it.p.diagnostics) <= MaxDiagnostics
       /\ parser' = it.p
       /\ frame' = [frame EXCEPT !.state = it.state]
       /\ ppc' = IF it.next = "break" THEN "done" ELSE "parse_list"
    /\ UNCHANGED <<source, entry, parse_ast, result, lowerer_vars, reporter_vars, layout_vars, lexer_vars>>

ParserNext ==
    \/ ParseStep
    \/ ParseExpression
    \/ ParseListLoop

ParserSpec == ParserInit /\ [][ParserNext]_vars

(***************************************************************************)
(* The diagnostic context: push, emit and flush.                           *)
(***************************************************************************)
\* the diagnostics pushed to a context: a severity and a code
ReportedDiagnostics ==
    {[severity |-> "Error", code |-> "E0013"],
     [severity |-> "Error", code |-> "FC0017"],
     [severity |-> "Warning", code |-> "W0001"]}

\* Context::emit_diagnostic: the diagnostic is written to stderr when it is a
\* bug or an error and to stdout otherwise
emit_diagnostic(diagnostic) ==
    [stream |-> IF diagnostic.severity \in {"Bug", "Error"} THEN "stderr" ELSE "stdout",
     diagnostic |-> diagnostic]

RECURSIVE emit_reversed(_, _)
\* mutant: the buffered diagnostics are rendered last first
emit_reversed(ds, term) ==
    IF ds = <<>> THEN term
    ELSE emit_reversed(SubSeq(ds, 1, Len(ds) - 1), Append(term, emit_diagnostic(ds[Len(ds)])))

RECURSIVE emit(_, _)
\* Context::emit over the diagnostics ds: the terminal after it, from term
emit(ds, term) ==
    IF ds = <<>> THEN term
    ELSE emit(Tail(ds), Append(term, emit_diagnostic(Head(ds))))

\* Context::new
ReporterInit ==
    /\ context_diagnostics = <<>>
    /\ terminal = <<>>
    /\ rpc = "new"
    /\ LowererIdle
    /\ ParserIdle
    /\ LayoutIdle
    /\ LexerIdle

\* context.diagnostics.push(diagnostic)
ContextPush ==
    /\ rpc \notin {"idle", "panicked"}
    /\ Len(context_diagnostics) < MaxBuffered
    /\ \E d \in ReportedDiagnostics : context_diagnostics' = Append(context_diagnostics, d)
    /\ rpc' = "pushed"
    /\ UNCHANGED <<terminal, lowerer_vars, parser_vars, layout_vars, lexer_vars>>

\* Context::emit, every write succeeding
ContextEmit ==
    /\ rpc \notin {"idle", "panicked"}
    /\ Len(terminal) + Len(context_diagnostics) <= MaxRendered
    /\ terminal' = emit(context_diagnostics, terminal)
    /\ rpc' = "emitted"
    /\ UNCHANGED <<context_diagnostics, lowerer_vars, parser_vars, layout_vars, lexer_vars>>

\* Context::flush, every write succeeding
ContextFlush ==
    /\ rpc \notin {"idle", "panicked"}
    /\ Len(terminal) + Len(context_diagnostics) <= MaxRendered
    /\ terminal' = emit(context_diagnostics, terminal)
    /\ context_diagnostics' = <<>>
    /\ rpc' = "flushed"
    /\ UNCHANGED <<lowerer_vars, parser_vars, layout_vars, lexer_vars>>

\* Context::emit or Context::flush when the write of diagnostic k + 1 fails:
\* `emit(..).unwrap()` panics, before flush() clears the list
ContextWriteFails ==
    /\ rpc \notin {"idle", "panicked"}
    /\ Len(terminal) + Len(context_diagnostics) <= MaxRendered
    /\ \E k \in 0..(Len(context_diagnostics) - 1) :
          terminal' = emit(SubSeq(context_diagnostics, 1, k), terminal)
    /\ rpc' = "panicked"
    /\ UNCHANGED <<context_diagnostics, lowerer_vars, parser_vars, layout_vars, lexer_vars>>

ReporterNext ==
    \/ ContextPush
    \/ ContextEmit
    \/ ContextFlush
    \/ ContextWriteFails

ReporterSpec == ReporterInit /\ [][ReporterNext]_vars

(***************************************************************************)
(* Types: the size of a construct.                                         *)
(***************************************************************************)
\* the variants of FlycatcherType without a payload
PrimitiveTypes ==
    {"Void", "Bool", "Uint8", "Uint16", "Uint32", "Uint64", "Usize", "Int8", "Int16",
     "Int32", "Int64", "Size", "Float32", "Float64"}

\* FlycatcherType::get_32bit_align
get_32bit_align(ty) ==
    CASE ty = "Void" -> 0
      [] ty \in {"Bool", "Uint8", "Int8"} -> 1
      [] ty \in {"Uint16", "Int16"} -> 2
      [] ty \in {"Uint32", "Int32", "Float32", "Usize", "Size"} -> 4
      [] ty \in {"Uint64", "Int64", "Float64"} -> 8

\* FlycatcherType::get_64bit_align
get_64bit_align(ty) ==
    CASE ty = "Void" -> 0
      [] ty \in {"Bool", "Uint8", "Int8"} -> 1
      [] ty \in {"Uint16", "Int16"} -> 2
      [] ty \in {"Uint32", "Int32", "Float32"} -> 4
      [] ty \in {"Uint64", "Int64", "Float64", "Usize", "Size"} -> 8

\* get_32bit_align or get_64bit_align, as the function for b bits calls it
get_align(ty, b) == IF b = 32 THEN get_32bit_align(ty) ELSE get_64bit_align(ty)

\* round: ((x + mul - 1) / mul) * mul on usize, as <<value>>, or <<>> for a
\* panic: with mul = 0 the division panics (and 0 + 0 - 1 underflows before it)
round(x, mul) == IF mul = 0 THEN <<>> ELSE <<((x + mul - 1) \div mul) * mul>>

\* the loop of calculate_32bit_align / calculate_64bit_align from the local
\* `size` = sz over the properties props
RECURSIVE align_loop(_, _, _)
align_loop(props, b, sz) ==
    IF props = <<>> THEN sz
    ELSE align_loop(Tail(props), b,
                    IF get_align(Head(props), b) > sz THEN get_align(Head(props), b) ELSE sz)

\* Construct::calculate_32bit_align, Construct::calculate_64bit_align
calculate_align(props, b) == align_loop(props, b, 0)

\* one iteration of the loop of calculate_32bit_size / calculate_64bit_size
\* at index idx (0-based) with the local `size` = sz: <<the new `size`>>, or
\* <<>> for a panic
size_iteration(props, b, idx, sz) ==
    IF idx + 1 < Len(props)
    THEN round(sz + get_align(props[idx + 1], b), get_align(props[idx + 2], b))
    ELSE <<sz + get_align(props[idx + 1], b)>>

\* the constructs a size is calculated of
Constructs == UNION {[1..n -> PrimitiveTypes] : n \in 0..MaxProperties}

\* a construct or a C struct, and the call of calculate_32bit_size or
\* calculate_64bit_size; the methods of CStruct (cstruct.rs lines 20-98) are
\* those of Construct (construct.rs lines 30-108) line for line
LayoutInit ==
    /\ owner \in {"Construct", "CStruct"}
    /\ properties \in Constructs
    /\ bits \in {32, 64}
    /\ size = 0
    /\ prop_i = 0
    /\ lpc = "loop"
    /\ LowererIdle
    /\ ParserIdle
    /\ ReporterIdle
    /\ LexerIdle

\* the loop has run: sz is the new `size`, or the iteration panicked
SizeIterationTo(sz) ==
    IF sz = <<>>
    THEN lpc' = "panicked" /\ UNCHANGED <<size, prop_i>>
    ELSE size' = sz[1] /\ prop_i' = prop_i + 1 /\ lpc' = "loop"

\* one iteration of `while i < self.properties.len()`
SizeIteration ==
    /\ lpc = "loop"
    /\ prop_i < Len(properties)
    /\ SizeIterationTo(size_iteration(properties, bits, prop_i, size))
    /\ UNCHANGED <<owner, properties, bits, lowerer_vars, parser_vars, reporter_vars, lexer_vars>>

\* the function returns sz, or the last round panicked
SizeReturnTo(sz) ==
    IF sz = <<>>
    THEN lpc' = "panicked" /\ UNCHANGED size
    ELSE size' = sz[1] /\ lpc' = "done"

\* the end of the loop: `round(size, self.calculate_64bit_align())`
SizeReturn ==
    /\ lpc = "loop"
    /\ prop_i >= Len(properties)
    /\ SizeReturnTo(round(size, calculate_align(properties, bits)))
    /\ UNCHANGED <<owner, properties, bits, prop_i, lowerer_vars, parser_vars, reporter_vars, lexer_vars>>

LayoutNext ==
    \/ SizeIteration
    \/ SizeReturn

LayoutSpec == LayoutInit /\ [][LayoutNext]_vars

(***************************************************************************)
(* The hand-written lexer: compiler/src/lexer/mod.rs.                      *)
(***************************************************************************)
\* chars.rs: one character of each class the lexer tells apart
is_white_space(c) == c = " "

is_line_term(c) == c = "\n"

is_punctuator(c) == c \in {";", "/"}

is_iden_start(c) == c \in {"a"}

is_iden_continue(c) == c \in {"a", "1"}

\* the characters of the sources: the classes above, both quotes, the
\* backslash
Characters == {" ", "\n", ";", "/", "\"", "'", "\\", "a", "1"}

\* every source of at most MaxChars characters
LexerSources == UNION {[1..n -> Characters] : n \in 0..MaxChars}

\* what a call of next() does: Some(token) with the new loc, None, a panic
\* (an index out of bounds), or a loop that never ends
Lexed(tok, start, end) == [k |-> "Some", tok |-> tok, loc |-> <<start, end>>]

LexedNone == [k |-> "None"]

LexerPanics == [k |-> "Panic"]

LexerDiverges == [k |-> "Diverges"]

\* Token::InvalidStr
InvalidStr(ty, pos) == [k |-> "InvalidStr", ty |-> ty, error_loc |-> <<pos - 1, pos>>]

\* lines 151-154: the end of a comment that has reached pos
RECURSIVE comment_end(_, _)
comment_end(cs, pos) ==
    IF pos < Len(cs) /\ ~is_line_term(cs[pos + 1])
    THEN comment_end(cs, pos + 1)
    ELSE pos

\* lines 134-157: a comment; chars[pos] is read without a check
lex_comment(cs, start) ==
    IF start + 2 >= Len(cs)
    THEN LexerPanics
    ELSE IF cs[start + 3] = "/"
         THEN Lexed([k |-> "DocComment"], start, comment_end(cs, start + 3))
         ELSE Lexed([k |-> "LineComment"], start, comment_end(cs, start + 2))

\* lines 110-164: a punctuator; the check of line 121 tests start_index,
\* which line 77 has tested already, so chars[start_index + 1] is read
\* without a check
lex_punctuator(cs, start) ==
    IF cs[start + 1] = "/"
    THEN IF start + 1 >= Len(cs)
         THEN LexerPanics
         ELSE IF cs[start + 2] = "/"
              THEN lex_comment(cs, start)
              ELSE Lexed([k |-> "Punctuator"], start, start + 1)
    ELSE Lexed([k |-> "Punctuator"], start, start + 1)

\* lines 170-234: the loop of a string that started with start_char
RECURSIVE lex_string(_, _, _, _)
lex_string(cs, start, start_char, pos) ==
    IF pos >= Len(cs)
    THEN Lexed(InvalidStr("UnclosedEOF", pos), start, pos)
    ELSE IF cs[pos + 1] = start_char
         THEN Lexed([k |-> "Str"], start, pos + 1)
         ELSE IF is_line_term(cs[pos + 1])
              THEN Lexed(InvalidStr("UnclosedLine", pos), start, pos)
              ELSE IF cs[pos + 1] = "\\"
                   THEN IF pos + 1 >= Len(cs)
                        THEN Lexed(InvalidStr("UnclosedEOF", pos + 1), start, pos + 1)
                        ELSE IF is_line_term(cs[pos + 2])
                             THEN Lexed(InvalidStr("UnclosedLine", pos + 1), start, pos + 1)
                             ELSE lex_string(cs, start, start_char, pos + 2)
                   ELSE lex_string(cs, start, start_char, pos + 1)

\* lines 240-267: the loop of an identifier. An iteration on a character
\* that does not continue the identifier changes nothing, so the loop runs
\* again on the same character; a loop that reaches the end of the source
\* falls through to Token::Invalid
RECURSIVE lex_identifier(_, _, _)
lex_identifier(cs, start, pos) ==
    IF pos >= Len(cs)
    THEN Lexed([k |-> "Invalid"], start, start + 1)
    ELSE IF is_iden_continue(cs[pos + 1])
         THEN lex_identifier(cs, start, pos + 1)
         ELSE LexerDiverges

\* Lexer::next
lexer_next_token(cs, start) ==
    IF start >= Len(cs)
    THEN LexedNone
    ELSE IF is_white_space(cs[start + 1])
         THEN Lexed([k |-> "WhiteSpace"], start, start + 1)
         ELSE IF is_line_term(cs[start + 1])
              THEN Lexed([k |-> "LineTerm"], start, start + 1)
              ELSE IF is_punctuator(cs[start + 1])
                   THEN lex_punctuator(cs, start)
                   ELSE IF cs[start + 1] \in {"\"", "'"}
                        THEN lex_string(cs, start, cs[start + 1], start + 1)
                        ELSE IF is_iden_start(cs[start + 1])
                             THEN lex_identifier(cs, start, start + 1)
                             ELSE Lexed([k |-> "Invalid"], start, start + 1)

\* Lexer::new
LexerInit ==
    /\ \E cs \in LexerSources : lexer = [chars |-> cs, loc |-> <<0, 0>>]
    /\ lexed = <<>>
    /\ xpc = "ready"
    /\ LowererIdle
    /\ ParserIdle
    /\ ReporterIdle
    /\ LayoutIdle

\* the call of next() has done `out`
LexerNextTo(out) ==
    /\ lexer' = IF out.k = "Some" THEN [lexer EXCEPT !.loc = out.loc] ELSE lexer
    /\ lexed' = IF out.k = "Some"
                THEN Append(lexed, [tok |-> out.tok, loc |-> out.loc])
                ELSE lexed
    /\ xpc' = CASE out.k = "Some" -> "ready"
                [] out.k = "None" -> "exhausted"
                [] out.k = "Panic" -> "panicked"
                [] out.k = "Diverges" -> "diverged"

\* one call of next(), as the loop of the test makes it
LexerNext ==
    /\ xpc = "ready"
    /\ LexerNextTo(lexer_next_token(lexer.chars, lexer.loc[2]))
    /\ UNCHANGED <<lowerer_vars, parser_vars, reporter_vars, layout_vars>>

LexerSpec == LexerInit /\ [][LexerNext]_vars




(***************************************************************************)
(* Properties of the lowerer.                                              *)
(***************************************************************************)
\* the program `x = 1; y = x + 2;`
Scenario1 ==
    PlaceProgram(<<BinaryExpression("Equals", IdentifierLiteral("x"), IntegerLiteral(u64(1))),
                   BinaryExpression("Equals", IdentifierLiteral("y"),
                       BinaryExpression("Add", IdentifierLiteral("x"), IntegerLiteral(u64(2))))>>, 0)

\* C1: for `x = 1; y = x + 2;` convert() finishes successful with no
\* diagnostics, symbols {x: Defined(Size, 1, 0), y: Defined(Size, 0, 1)} and
\* hir [Set(x, 1), Set(y, Add(Named(x), 2))].
C1_Scenario1Lowers ==
    (ast = Scenario1 /\ pc = "done") =>
        /\ successful
        /\ diagnostics = <<>>
        /\ symbols = [n \in Names |->
                        IF n = "x" THEN Defined("Size", 1, 0) ELSE Defined("Size", 0, 1)]
        /\ Len(hir) = 2
        /\ hir[1].k = "Set" /\ hir[1].l.n = "x" /\ hir[1].r.k = "Integer"
        /\ hir[2].k = "Set" /\ hir[2].l.n = "y" /\ hir[2].r.k = "Add"
        /\ hir[2].r.l.k = "Named" /\ hir[2].r.l.n = "x" /\ hir[2].r.r.k = "Integer"

\* the number of Named(n) nodes of h that read n (the target of a Set is not a read)
RECURSIVE Reads(_, _)
Reads(h, n) ==
    CASE h.k = "Named" -> IF h.n = n THEN 1 ELSE 0
      [] h.k = "Set" -> Reads(h.r, n)
      [] h.k \in ArithOps -> Reads(h.l, n) + Reads(h.r, n)
      [] OTHER -> 0

RECURSIVE ReadsOfAll(_, _)
ReadsOfAll(hs, n) == IF hs = <<>> THEN 0 ELSE Reads(Head(hs), n) + ReadsOfAll(Tail(hs), n)

\* C2: after convert(), the reference count of every defined symbol is the
\* number of Named nodes of the HIR that read it.
C2_RefCountHonest ==
    pc = "done" =>
        \A n \in Names :
            symbols[n].k = "Defined" => symbols[n].c = ReadsOfAll(hir, n)

\* every node of h is well typed under syms
RECURSIVE WellTyped(_, _)
WellTyped(h, syms) ==
    CASE h.k \in ArithOps ->
            /\ get_type(h.l, syms) = get_type(h.r, syms)
            /\ WellTyped(h.l, syms) /\ WellTyped(h.r, syms)
      [] h.k = "Set" ->
            /\ syms[h.l.n].k # "Absent"
            /\ syms[h.l.n].t = get_type(h.r, syms)
            /\ WellTyped(h.r, syms)
      [] OTHER -> TRUE

\* C3: in the HIR convert() produces, the two children of every arithmetic
\* node have the same type and every Set gives its variable a value of the
\* variable's type, under the final symbol table.
C3_TypeSound ==
    pc = "done" => \A j \in 1..Len(hir) : WellTyped(hir[j], symbols)

\* convert() has produced a Set whose value is an arithmetic node over a variable
C3_Witness ==
    /\ pc = "done"
    /\ successful
    /\ \E j \in 1..Len(hir) :
        /\ hir[j].k = "Set"
        /\ hir[j].r.k \in ArithOps
        /\ hir[j].r.l.k = "Named"

(***************************************************************************)
(* Properties of the parser.                                               *)
(***************************************************************************)
\* a node without the ranges and semicolon flags of its AstMeta
RECURSIVE Shape(_)
ShapeAll(nodes) == [j \in 1..Len(nodes) |-> Shape(nodes[j])]

Shape(node) ==
    CASE node.k = "BinaryExpr" -> BinaryExpr(node.op, Shape(node.l), Shape(node.r))
      [] node.k = "UnaryExpr" -> UnaryExpr(node.op, Shape(node.e))
      [] node.k = "SubscriptExpr" -> SubscriptExpr(Shape(node.l), Shape(node.idx))
      [] node.k = "CallExpr" -> CallExpr(Shape(node.l), ShapeAll(node.args))
      [] node.k = "ArrayLiteral" -> ArrayLiteral(ShapeAll(node.items))
      [] node.k = "IfStmnt" ->
            IfStmnt(Shape(node.expr), ShapeAll(node.block), ShapeAll(node.branches))
      [] node.k = "WhileStmnt" -> WhileStmnt(Shape(node.expr), ShapeAll(node.block))
      [] node.k = "Block" -> Block(ShapeAll(node.block))
      [] OTHER -> [f \in DOMAIN node \ {"range", "semicolon"} |-> node[f]]

\* the call has returned
Returns == ppc = "done"

\* the expression the call parsed first: what parse_expression() returned, or
\* the first item parse() pushed to its `ast`
FirstParsed ==
    IF entry = "parse_expression" THEN result
    ELSE IF parse_ast # <<>> THEN parse_ast[1]
    ELSE None

\* the left and right binding power of an infix operator token (the opcode of
\* an infix operator has the name of its token)
lbp(t) == infix_precedence(t)[1]
rbp(t) == infix_precedence(t)[2]

\* the loop iteration `it` consumes a token, or leaves the loop (`leaves` is the
\* way a loop returns; an iteration of parse() also leaves by a panic or a
\* loop below it that does not end)
ConsumesOrLeaves(it, leaves) ==
    \/ it.next \in {leaves, "panic", "loops"}
    \/ it.p.pos > parser.pos

\* C4: every iteration of a loop of the parser consumes a token or leaves the
\* loop, so that parse() and parse_expression() return after finitely many
\* steps and diagnostics: it holds of the loop of parse_list and of the loop
\* of parse() in every state a call reaches.
C4_LoopsConsumeOrReturn ==
    /\ ppc = "parse_list" =>
        ConsumesOrLeaves(parse_list_iteration(frame.close, frame.state, parser), "break")
    /\ ppc = "parse" =>
        ConsumesOrLeaves(parse_iteration(parse_ast, parser), "return")

InfixPrecedenceOf(p, q) ==
    (source = InfixSource(p, q) /\ Returns) =>
        /\ lbp(q) > rbp(p) =>
            Shape(FirstParsed) =
                BinaryExpr(p, IdentifierLiteral("a"),
                    BinaryExpr(q, IdentifierLiteral("b"), IdentifierLiteral("c")))
        /\ (lbp(q) = lbp(p) /\ p # "Period") =>
            Shape(FirstParsed) =
                BinaryExpr(q,
                    BinaryExpr(p, IdentifierLiteral("a"), IdentifierLiteral("b")),
                    IdentifierLiteral("c"))

\* C6: for infix operators p and q, `a p b q c` parses to
\* Binary(p, a, Binary(q, b, c)) when q binds on its left more tightly than p
\* on its right, and to Binary(q, Binary(p, a, b), c) when p and q are of the
\* same precedence level other than that of `.`.
C6_InfixPrecedence ==
    \A p \in InfixTokens, q \in InfixTokens : InfixPrecedenceOf(p, q)

\* the same over the infix operators Opcode::from_token gives an opcode for
InfixPrecedenceOfRecognised ==
    \A p \in InfixTokens, q \in InfixTokens :
        (from_token(p) # "None" /\ from_token(q) # "None") => InfixPrecedenceOf(p, q)

\* C7: the operand of a prefix operator u is everything that binds at least
\* as tightly as u: `u a q b` parses to Unary(u, Binary(q, a, b)) when q
\* binds at least as tightly as u, and otherwise the operand of u is `a`
\* alone; `-a.b` parses to Unary(-, Binary(., a, b)) and `-a + b` to
\* Binary(+, Unary(-, a), b).
C7_PrefixOperand ==
    /\ \A u \in PrefixTokens, q \in InfixTokens :
        (source = PrefixSource(u, q) /\ Returns) =>
            IF lbp(q) >= prefix_precedence(u)[1]
            THEN Shape(FirstParsed) =
                    UnaryExpr(u, BinaryExpr(q, IdentifierLiteral("a"), IdentifierLiteral("b")))
            ELSE Shape(FirstParsed) \in
                    {UnaryExpr(u, IdentifierLiteral("a")),
                     BinaryExpr(q, UnaryExpr(u, IdentifierLiteral("a")), IdentifierLiteral("b"))}
    /\ (source = PrefixSource("Minus", "Period") /\ Returns) =>
            Shape(FirstParsed) =
                UnaryExpr("Minus",
                    BinaryExpr("Period", IdentifierLiteral("a"), IdentifierLiteral("b")))
    /\ (source = PrefixSource("Minus", "Plus") /\ Returns) =>
            Shape(FirstParsed) =
                BinaryExpr("Plus", UnaryExpr("Minus", IdentifierLiteral("a")),
                    IdentifierLiteral("b"))

\* parse_expression() has returned the tree of `-a.b`
C7_Witness ==
    /\ source = PrefixSource("Minus", "Period")
    /\ entry = "parse_expression"
    /\ Returns
    /\ result.k = "UnaryExpr"
    /\ result.e.k = "BinaryExpr"

\* `fn()(arg1, arg2)[0].field`
CallScenario ==
    <<Word("fn", 2), Sym("LParen"), Sym("RParen"),
      Sym("LParen"), Word("arg1", 4), Sym("Comma"), Word("arg2", 4), Sym("RParen"),
      Sym("LBrack"), Number("0"), Sym("RBrack"), Sym("Period"), Word("field", 5)>>

\* C8: `fn()(arg1, arg2)[0].field` parses to
\* .(Subscript(Call(Call(fn, []), [arg1, arg2]), 0), field): a `(` after an
\* expression gives Call(lhs, args) and postfix operators chain left to right.
C8_PostfixChain ==
    (source = CallScenario /\ Returns) =>
        Shape(FirstParsed) =
            BinaryExpr("Period",
                SubscriptExpr(
                    CallExpr(CallExpr(IdentifierLiteral("fn"), <<>>),
                             <<IdentifierLiteral("arg1"), IdentifierLiteral("arg2")>>),
                    IntegerLiteral(u64(0))),
                IdentifierLiteral("field"))

\* `if e1 { } else if e2 { } else { }`
IfScenario ==
    <<Sym("IfKeyword"), Word("e1", 2), Sym("LCurly"), Sym("RCurly"),
      Sym("ElseKeyword"), Sym("IfKeyword"), Word("e2", 2), Sym("LCurly"), Sym("RCurly"),
      Sym("ElseKeyword"), Sym("LCurly"), Sym("RCurly")>>

\* the node C9 says IfScenario parses to
IfScenarioNode ==
    IfStmnt(IdentifierLiteral("e1"), <<>>,
            <<IfStmnt(IdentifierLiteral("e2"), <<>>, <<>>), Block(<<>>)>>)

\* C9: `if e1 { } else if e2 { } else { }` parses to one IfStmnt whose
\* branches are an IfStmnt with no branches (the `else if`) and then a Block
\* (the `else`), and parsing it pushes no diagnostic: parse_expression()
\* returns that node with no diagnostic, and parse() has that node as its only
\* item, with no diagnostic, when it goes on after the statement.
C9_IfElseChain ==
    source = IfScenario =>
        /\ (entry = "parse_expression" /\ Returns) =>
            /\ Shape(result) = IfScenarioNode
            /\ parser.diagnostics = <<>>
        /\ (entry = "parse" /\ parse_ast # <<>>) =>
            /\ Len(parse_ast) = 1
            /\ Shape(parse_ast[1]) = IfScenarioNode
            /\ ppc = "parse" => parser.diagnostics = <<>>

\* parse_expression() has returned an `if` with two branches for IfScenario
C9_Witness ==
    /\ source = IfScenario
    /\ entry = "parse_expression"
    /\ Returns
    /\ result.k = "IfStmnt"
    /\ Len(result.branches) = 2

\* C10: for every InvalidString token the parser has consumed, the
\* diagnostics hold an E0001 with a primary label over the span of the token
\* and a secondary label over its first byte.
C10_UnclosedStringReported ==
    \A t \in 1..parser.pos :
        source[t].t = "InvalidString" =>
            \E d \in 1..Len(parser.diagnostics) :
                parser.diagnostics[d] =
                    Diagnostic("E0001", unclosed_string_labels(TokenSpan(t)))

(***************************************************************************)
(* Further properties of the lowerer.                                      *)
(***************************************************************************)
\* C11: after convert(), every symbol n that is Defined(t, c, idx) has
\* idx < len(hir), and hir[idx] is a Set whose target is Named(n).
C11_DefinedIndexIsItsSet ==
    pc = "done" =>
        \A n \in Names :
            symbols[n].k = "Defined" =>
                /\ symbols[n].idx < Len(hir)
                /\ hir[symbols[n].idx + 1].k = "Set"
                /\ hir[symbols[n].idx + 1].l.n = n

\* every Named node of h names a symbol that is Defined in syms
RECURSIVE NamedAreDefined(_, _)
NamedAreDefined(h, syms) ==
    CASE h.k = "Named" -> syms[h.n].k = "Defined"
      [] h.k = "Set" \/ h.k \in ArithOps ->
            NamedAreDefined(h.l, syms) /\ NamedAreDefined(h.r, syms)
      [] OTHER -> TRUE

\* what ast_literal makes of the identifier n in the current state
IdentifierLowers(n, out) ==
    CASE symbols[n].k = "Declared" ->
            /\ out.res = None
            /\ out.self.diagnostics =
                 Append(diagnostics, Diagnostic("FC0018", <<Label("primary", <<0, 1>>)>>))
      [] symbols[n].k = "Absent" ->
            /\ out.res = None
            /\ out.self.diagnostics =
                 Append(diagnostics, Diagnostic("FC0017", <<Label("primary", <<0, 1>>)>>))
      [] symbols[n].k = "Defined" ->
            /\ out.res = HirNamed(n, <<0, 1>>)
            /\ out.self.diagnostics = diagnostics

\* C12: every Named(n) node of the HIR names a symbol that is Defined; an
\* identifier whose symbol is only Declared yields FC0018 and no node, an
\* unknown identifier yields FC0017 and no node; and a Defined symbol never
\* goes back to Declared.
C12_NamedIsDefined ==
    /\ [](/\ \A j \in 1..Len(hir) : NamedAreDefined(hir[j], symbols)
          /\ \A n \in Names :
                IdentifierLowers(n, ast_literal(Place(IdentifierLiteral(n), 0), Frontend)))
    /\ [][\A n \in Names : symbols[n].k = "Defined" => symbols'[n].k = "Defined"]_vars

\* pass 2 has pushed a Set of one variable while the other is still only
\* Declared: the HIR holds a Named node, and both a Defined and a Declared
\* identifier can be read
C12_Witness ==
    /\ pc = "convert"
    /\ \E j \in 1..Len(hir) : hir[j].k = "Set" /\ hir[j].l.k = "Named"
    /\ \E n \in Names : symbols[n].k = "Defined"
    /\ \E n \in Names : symbols[n].k = "Declared"

\* pass 1 lowers the value of this item: a top-level assignment to a name
\* that is not yet in the symbol table
DeclaresValue(item) ==
    /\ item.k = "BinaryExpression"
    /\ item.op = "Equals"
    /\ item.l.k = "IdentifierLiteral"
    /\ symbols[item.l.n].k = "Absent"

\* the call of ast_expression returned None (it did not panic)
ReturnsNone(e) == ~e.panic /\ e.res = None

\* a step of either pass over an item that fails to lower leaves a
\* diagnostic, and no step removes one
FailureIsReported ==
    /\ (pc = "convert" /\ i <= Len(ast)
          /\ ReturnsNone(ast_expression(ast[i], Frontend)))
        => diagnostics' # <<>>
    /\ (pc = "resolve" /\ i <= Len(ast) /\ DeclaresValue(ast[i])
          /\ ReturnsNone(ast_expression(ast[i].r, Frontend)))
        => diagnostics' # <<>>
    /\ Len(diagnostics') >= Len(diagnostics)
    /\ SubSeq(diagnostics', 1, Len(diagnostics)) = diagnostics

\* C13: in every reachable state of the lowerer successful() is true iff the
\* diagnostics list is empty, and whenever a top-level item or a declared
\* value fails to lower, a diagnostic has been pushed (and stays) by the time
\* convert() returns.
C13_FlagAgreesWithDiagnostics ==
    /\ [](successful <=> diagnostics = <<>>)
    /\ [][FailureIsReported]_vars

\* convert() has returned after an item ast_expression rejected without a
\* diagnostic of its own: the only diagnostic is the FC0022 of convert()
C13_Witness ==
    /\ pc = "done"
    /\ ~successful
    /\ Len(diagnostics) = 1
    /\ diagnostics[1].code = "FC0022"

\* a top-level assignment to a name
IsAssignment(item) ==
    /\ item.k = "BinaryExpression"
    /\ item.op = "Equals"
    /\ item.l.k = "IdentifierLiteral"

\* the value of an assignment to n lowered to e, a node of a type that is not
\* the type the symbol table holds for n
ValueOfOtherType(n, e) ==
    /\ ~e.panic
    /\ e.res # None
    /\ symbols[n].k # "Absent"
    /\ get_type(e.res, e.self.symbols) \notin {Panic, symbols[n].t}

\* no step changes the type of a name that is in the symbol table; pass 1
\* skips an assignment to such a name; pass 2 rejects an assignment of a
\* value of another type with FC0025 and keeps the entry
FirstWriterWins ==
    /\ \A n \in Names :
          symbols[n].k # "Absent" =>
              symbols'[n].k # "Absent" /\ symbols'[n].t = symbols[n].t
    /\ (pc = "resolve" /\ i <= Len(ast) /\ IsAssignment(ast[i])
          /\ symbols[ast[i].l.n].k # "Absent")
        => UNCHANGED <<symbols, hir, diagnostics, successful>>
    /\ (pc = "convert" /\ i <= Len(ast) /\ IsAssignment(ast[i]) /\ successful
          /\ ValueOfOtherType(ast[i].l.n, ast_expression(ast[i].r, Frontend)))
        => /\ diagnostics' =
                Append(diagnostics,
                       Diagnostic("FC0025", <<Label("primary", ast[i].range),
                                              Label("primary", ast[i].r.range)>>))
           /\ ~successful'
           /\ symbols'[ast[i].l.n] = symbols[ast[i].l.n]
           /\ hir' = hir

OperandsDiffer(l, r) ==
    /\ ~l.panic /\ l.res # None
    /\ ~r.panic /\ r.res # None
    /\ get_type(l.res, r.self.symbols) # Panic
    /\ get_type(r.res, r.self.symbols) # Panic
    /\ get_type(l.res, r.self.symbols) # get_type(r.res, r.self.symbols)

\* node is an arithmetic expression the lowerer reaches in the current state
\* and whose operands both lower, to different types
Mismatch(node) ==
    /\ node.k = "BinaryExpression"
    /\ node.op \in ArithOps
    /\ successful
    /\ OperandsDiffer(ast_expression(node.l, Frontend),
                      ast_expression(node.r, ast_expression(node.l, Frontend).self))

\* FC0021 for node: left operand span, right operand span, whole span
FC0021Of(node) ==
    Diagnostic("FC0021", <<Label("secondary", node.l.range),
                           Label("secondary", node.r.range),
                           Label("primary", node.range)>>)

\* a step over an item that is such an expression, or an assignment of one,
\* pushes FC0021 and nothing else, clears the flag and adds no node
MismatchReported ==
    /\ (pc = "convert" /\ i <= Len(ast) /\ Mismatch(ast[i]))
        => /\ diagnostics' = Append(diagnostics, FC0021Of(ast[i]))
           /\ ~successful'
           /\ hir' = hir
    /\ (pc = "convert" /\ i <= Len(ast) /\ IsAssignment(ast[i]) /\ Mismatch(ast[i].r))
        => /\ diagnostics' = Append(diagnostics, FC0021Of(ast[i].r))
           /\ ~successful'
           /\ hir' = hir
    /\ (pc = "resolve" /\ i <= Len(ast) /\ DeclaresValue(ast[i]) /\ Mismatch(ast[i].r))
        => /\ diagnostics' = Append(diagnostics, FC0021Of(ast[i].r))
           /\ ~successful'
           /\ symbols'[ast[i].l.n].k = "Absent"

\* C15: for an arithmetic Binary(op, L, R) whose operands both lower but to
\* different types, the lowerer pushes exactly one diagnostic, FC0021 with
\* the three labels left operand span, right operand span, whole expression
\* span, marks lowering unsuccessful and produces no HIR node.
C15_TypeMismatchReported == [][MismatchReported]_vars

\* convert() has returned after pass 2 accepted an assignment and then
\* rejected an arithmetic expression with FC0021
C15_Witness ==
    /\ pc = "done"
    /\ Len(hir) = 1
    /\ Len(diagnostics) = 1
    /\ diagnostics[1].code = "FC0021"
    /\ Len(diagnostics[1].labels) = 3

\* a top-level item that is not a literal, an identifier, an arithmetic
\* binary or an assignment to a name
Unsupported(item) ==
    /\ item.k \notin {"BooleanLiteral", "IntegerLiteral", "FloatLiteral",
                      "IdentifierLiteral"}
    /\ ~(item.k = "BinaryExpression" /\ item.op \in ArithOps)
    /\ ~IsAssignment(item)

\* FC0022 for item
FC0022Of(item) == Diagnostic("FC0022", <<Label("primary", item.range)>>)

\* no node of the HIR list was made from item
AddsNothing(item) == \A j \in 1..Len(hir) : hir[j].range # item.range

UnsupportedStep ==
    (pc = "convert" /\ i <= Len(ast) /\ Unsupported(ast[i]))
        => /\ hir' = hir
           /\ ~successful'
           /\ diagnostics' =
                IF ~successful THEN diagnostics
                ELSE IF ast[i].k = "BinaryExpression"
                THEN <<Diagnostic("FC0019", <<Label("primary", ast[i].range)>>)>>
                ELSE <<FC0022Of(ast[i])>>

RECURSIVE SlotsFit(_)
SlotsFit(h) ==
    CASE h.k = "Integer" -> FitsI64(h.v)
      [] h.k = "UnsignedInteger" -> ~FitsI64(h.v)
      [] h.k = "Set" \/ h.k \in ArithOps -> SlotsFit(h.l) /\ SlotsFit(h.r)
      [] OTHER -> TRUE

\* C17: an integer literal lowers to Hir::Integer when its value fits a signed
\* 64-bit integer and to Hir::UnsignedInteger otherwise: no value in
\* (i64::MAX, u64::MAX] is stored in a signed slot.
C17_IntegerSlotFits == \A j \in 1..Len(hir) : SlotsFit(hir[j])

(***************************************************************************)
(* Further properties of the parser.                                       *)
(***************************************************************************)
\* the statements a list of names and `;` tokens holds, in source order: a
\* standalone `;` is no statement, a `;` after a name is its semicolon flag
RECURSIVE ExpectedStatements(_)
ExpectedStatements(toks) ==
    IF toks = <<>> THEN <<>>
    ELSE IF toks[1].t = "Semicolon" THEN ExpectedStatements(Tail(toks))
    ELSE IF Len(toks) >= 2 /\ toks[2].t = "Semicolon"
    THEN <<[n |-> toks[1].slice, semicolon |-> TRUE]>>
            \o ExpectedStatements(Tail(Tail(toks)))
    ELSE <<[n |-> toks[1].slice, semicolon |-> FALSE]>> \o ExpectedStatements(Tail(toks))

\* the name and the semicolon flag of each node of a list of identifiers
NamesAndFlags(nodes) ==
    [j \in 1..Len(nodes) |-> [n |-> nodes[j].n, semicolon |-> nodes[j].semicolon]]

\* nodes are identifier nodes only
AllIdentifiers(nodes) == \A j \in 1..Len(nodes) : nodes[j].k = "IdentifierLiteral"

\* parse_block on the block of `if e1 { .. }`: the statements of the list in
\* source order with their flags, and no diagnostic
BlockStatementsRead ==
    (entry = "parse_expression" /\ Returns /\ source \in BlockSources) =>
        /\ parser.diagnostics = <<>>
        /\ result.k = "IfStmnt"
        /\ AllIdentifiers(result.block)
        /\ NamesAndFlags(result.block) =
             ExpectedStatements(SubSeq(source, Len(BlockStart) + 1, Len(source) - 1))

\* parse() on a statement list closed by `}`
TopLevelStatementsRead ==
    (entry = "parse" /\ Returns /\ source \in TopLevelSources) =>
        /\ parser.diagnostics = <<>>
        /\ result.k = "Some"
        /\ AllIdentifiers(result.items)
        /\ NamesAndFlags(result.items) =
             ExpectedStatements(SubSeq(source, 1, Len(source) - 1))

\* C18: both at top level (parse) and inside a block (parse_block) a
\* standalone `;` is skipped without a diagnostic, a `;` that follows a
\* statement is consumed and sets that statement's semicolon flag, and the
\* statements are returned in source order.
C18_SemicolonsRead == TopLevelStatementsRead /\ BlockStatementsRead

(***************************************************************************)
(* Properties of the diagnostic context.                                   *)
(***************************************************************************)
\* the diagnostics the step has written to the terminal, in order
RenderedByStep ==
    [j \in 1..(Len(terminal') - Len(terminal)) |-> terminal'[Len(terminal) + j].diagnostic]

\* a call of emit() or flush() that returns has rendered the buffered
\* diagnostics once each in push order after what was rendered before;
\* emit() keeps the buffer, flush() empties it, and a flush() right after a
\* flush() renders nothing
RendersBuffer ==
    /\ Len(terminal') >= Len(terminal)
    /\ SubSeq(terminal', 1, Len(terminal)) = terminal
    /\ rpc' = "emitted" =>
          RenderedByStep = context_diagnostics /\ context_diagnostics' = context_diagnostics
    /\ rpc' = "flushed" =>
          RenderedByStep = context_diagnostics /\ context_diagnostics' = <<>>
    /\ (rpc = "flushed" /\ rpc' = "flushed") => terminal' = terminal

\* C19: after any sequence of pushes, emit() renders every buffered
\* diagnostic exactly once in push order and leaves the buffer unchanged;
\* flush() renders the same sequence and leaves the buffer empty, so a second
\* flush() renders nothing.
C19_ReporterOrdering == [][RendersBuffer]_vars

\* flush() has returned after two different diagnostics were pushed: both are
\* on the terminal and the buffer is empty
C19_Witness ==
    /\ rpc = "flushed"
    /\ context_diagnostics = <<>>
    /\ Len(terminal) >= 2
    /\ terminal[Len(terminal) - 1].diagnostic # terminal[Len(terminal)].diagnostic

(***************************************************************************)
(* Properties of the construct layout.                                     *)
(***************************************************************************)
\* the alignment of property j of the construct
AlignOf(j) == get_align(properties[j], bits)

\* the maximum of the members' alignments (0 without members)
MaxAlign ==
    IF properties = <<>> THEN 0
    ELSE CHOOSE a \in {AlignOf(j) : j \in 1..Len(properties)} :
            \A j \in 1..Len(properties) : AlignOf(j) <= a

\* the least multiple of m that is at least x (m > 0)
RoundedUp(x, m) == CHOOSE y \in x..(x + m - 1) : y % m = 0

\* the running offset after the first k fields: each field's alignment is
\* added in declared order and the sum rounded up to the next field's alignment
RECURSIVE OffsetAfter(_)
OffsetAfter(k) ==
    IF k = 0 THEN 0
    ELSE IF k < Len(properties)
    THEN RoundedUp(OffsetAfter(k - 1) + AlignOf(k), AlignOf(k + 1))
    ELSE OffsetAfter(k - 1) + AlignOf(k)

\* a size that was returned is the size of the rule, rounded up to the
\* construct's alignment, and a multiple of it; (uint8, uint8, uint16) has
\* 64-bit size 4
LayoutRuleHolds ==
    lpc = "done" =>
        /\ size = RoundedUp(OffsetAfter(Len(properties)), MaxAlign)
        /\ size % MaxAlign = 0
        /\ (properties = <<"Uint8", "Uint8", "Uint16">> /\ bits = 64) => size = 4

\* C20: for every construct whose properties have primitive types,
\* calculate_64bit_size (and calculate_32bit_size) returns the size of the
\* rule "add each field's alignment in declared order, round the running
\* offset up to the next field's alignment, round the total up to the
\* construct's alignment"; the construct's alignment is the maximum of its
\* members' alignments and the size is a multiple of it; (uint8, uint8,
\* uint16) has 64-bit size 4.
C20_ConstructLayout ==
    /\ lpc # "panicked"
    /\ calculate_align(properties, bits) = MaxAlign
    /\ LayoutRuleHolds

(***************************************************************************)
(* Properties of the hand-written lexer.                                   *)
(***************************************************************************)
\* the ranges of the tokens returned so far are not empty and each starts
\* where the one before it ended
RangesChain ==
    \A j \in 1..Len(lexed) :
        /\ lexed[j].loc[1] < lexed[j].loc[2]
        /\ lexed[j].loc[1] = IF j = 1 THEN 0 ELSE lexed[j - 1].loc[2]

\* C21: for every source, every call of next() returns (it neither panics
\* nor loops for ever), the ranges of the tokens are not empty and follow
\* one another from 0, and when next() returns None the last range ends at
\* the end of the source.
C21_LexerTotal ==
    /\ xpc \notin {"panicked", "diverged"}
    /\ RangesChain
    /\ xpc = "exhausted" => lexer.loc[2] = Len(lexer.chars)

(***************************************************************************)
(* Properties of the parser: doc comments.                                 *)
(***************************************************************************)
\* the parser has consumed the t-th token of the source
PassedOver(t) == t <= parser.pos

\* the index of the doc comment of a source of ForbiddenDocSources
ForbiddenDocAt == CHOOSE t \in 1..Len(source) : source[t].t = "DocComment"

\* the diagnostics hold an E0004
HasE0004 ==
    \E d \in 1..Len(parser.diagnostics) : parser.diagnostics[d].code = "E0004"

\* C22: when the parser has passed over a doc comment that stands before a
\* required token (the `{` after the condition of an if or a while, the `]`
\* of a subscript, the `,` of a list), the diagnostics hold an E0004 and the
\* parse is unsuccessful.
C22_ForbiddenDocCommentReported ==
    (source \in ForbiddenDocSources /\ PassedOver(ForbiddenDocAt))
        => (HasE0004 /\ ~parser.successful)

\* the texts of the doc comments among the first n tokens, in source order
RECURSIVE DocTexts(_)
DocTexts(n) ==
    IF n = 0 THEN <<>>
    ELSE IF source[n].t = "DocComment"
         THEN Append(DocTexts(n - 1), comment_text(source[n].slice))
         ELSE DocTexts(n - 1)

\* C23: the comment buffer of the parser holds the text of every doc comment
\* the parser has passed over, without its leading slashes and one leading
\* space, in source order.
C23_DocCommentsCaptured ==
    ppc # "idle" => parser.comments = DocTexts(parser.pos)

(***************************************************************************)
(* Properties of the parser: if-statements.                                *)
(***************************************************************************)
\* the diagnostics of the parser hold one of this code
HasCode(code) ==
    \E d \in 1..Len(parser.diagnostics) : parser.diagnostics[d].code = code

\* the t-th token is an `else` that ends the source
ElseAtEnd(t) == source[t].t = "ElseKeyword" /\ t = Len(source)

\* the t-th token is an `else` followed by a token that is neither `{` nor `if`
ElseBeforeOther(t) ==
    /\ source[t].t = "ElseKeyword"
    /\ t < Len(source)
    /\ source[t + 1].t \notin {"LCurly", "IfKeyword"}

\* parse_expression() has returned for an `if` after it consumed such an `else`
AfterElse(Bad(_)) ==
    /\ source \in IfSources
    /\ entry = "parse_expression"
    /\ ppc = "done"
    /\ \E t \in 1..parser.pos : Bad(t)

\* E0012 is reported and no node is returned
RejectedWithE0012 == HasCode("E0012") /\ ~parser.successful /\ result = None

\* the half of C24 that the code keeps: an `else` at the end of the file
ElseAtEndRejected == AfterElse(ElseAtEnd) => RejectedWithE0012

\* C24: when the parser has consumed an `else` that is followed by the end
\* of the file or by a token other than `{` and `if`, it has pushed E0012,
\* the parse is unsuccessful and no node is returned for the if-statement.
C24_ElseNeedsBlockOrIf ==
    (AfterElse(ElseAtEnd) \/ AfterElse(ElseBeforeOther)) => RejectedWithE0012

\* in the branches of an IfStmnt only the last one may be a Block
ElseBlockIsLast(node) ==
    node.k = "IfStmnt" =>
        \A j \in 1..Len(node.branches) :
            node.branches[j].k = "Block" => j = Len(node.branches)

\* C25: every IfStmnt the parser has built (the node parse_expression()
\* returned, and the statements parse() has collected) has at most one Block
\* among its branches, and that Block is the last branch: no `else` block
\* and no `else if` is accepted after an `else` block.
C25_OneFinalElse ==
    /\ (entry = "parse_expression" /\ ppc = "done") => ElseBlockIsLast(result)
    /\ entry = "parse" => \A j \in 1..Len(parse_ast) : ElseBlockIsLast(parse_ast[j])

(***************************************************************************)
(* Properties of the parser: the operators of the precedence table.        *)
(***************************************************************************)
\* the infix operators of the precedence table, by the name of their token:
\* `!` is the token Exclamation (`~` is the token Not)
TableOperators == (InfixTokens \ {"Not"}) \cup {"Exclamation"}

\* the (left, right) binding powers the table gives
TableBindingPowers(t) ==
    CASE t = "Period" -> <<100, 99>>
      [] t = "Exclamation" -> <<93, 94>>
      [] t \in {"Asterisk", "Slash", "Percent"} -> <<91, 92>>
      [] t \in {"Plus", "Minus"} -> <<89, 90>>
      [] t \in {"GreaterGreater", "LessLess"} -> <<87, 88>>
      [] t \in {"Greater", "Less", "GreaterEquals", "LessEquals"} -> <<85, 86>>
      [] t \in {"EqualsEquals", "ExclamationEquals"} -> <<83, 84>>
      [] t = "And" -> <<81, 82>>
      [] t = "Caret" -> <<79, 80>>
      [] t = "Or" -> <<77, 78>>
      [] t = "AndAnd" -> <<75, 76>>
      [] t = "OrOr" -> <<73, 74>>
      [] t = "Colon" -> <<71, 72>>
      [] t = "Equals" -> <<69, 70>>

\* `a t b` has parsed to Binary(t, a, b), and the parser used the binding
\* powers of the table for t
RecognisedAsInfix(t) ==
    (source = BinarySource(t) /\ Returns) =>
        /\ infix_precedence(from_token(t)) = TableBindingPowers(t)
        /\ Shape(FirstParsed) =
                BinaryExpr(t, IdentifierLiteral("a"), IdentifierLiteral("b"))

\* the operators of the table the parser does recognise
RecognisedOperators ==
    TableOperators \ {"GreaterGreater", "LessLess", "And", "Or", "Exclamation"}

\* the part of C26 that the code keeps
RecognisedOperatorsParse == \A t \in RecognisedOperators : RecognisedAsInfix(t)

\* C26: for every infix operator t of the precedence table, `a t b` parses
\* to one Binary(t, a, b) node, and the binding powers the parser uses for t
\* are those of the table.
C26_TableOperatorsRecognised == \A t \in TableOperators : RecognisedAsInfix(t)

(***************************************************************************)
(* Properties of the lowerer: aborts and the hand-off to the backend.      *)
(***************************************************************************)
\* C27: convert() never aborts silently: when it has aborted (a panic) the
\* diagnostics hold one of severity Bug.
C27_NoSilentAbort ==
    pc = "panicked" =>
        \E d \in 1..Len(diagnostics) : severity(diagnostics[d]) = "Bug"

(***************************************************************************)
(* Properties of the parser: the result of parse().                        *)
(***************************************************************************)
\* the tokens are statements that parse without error: names, each followed
\* by a `;` or not
RECURSIVE OnlyStatements(_)
OnlyStatements(toks) ==
    \/ toks = <<>>
    \/ /\ toks[1].t = "Identifier"
       /\ IF Len(toks) >= 2 /\ toks[2].t = "Semicolon"
          THEN OnlyStatements(Tail(Tail(toks)))
          ELSE OnlyStatements(Tail(toks))

\* parse() on statements followed by the end of the input returns all of
\* them in source order and pushes no diagnostic
AllStatementsReturned ==
    (entry = "parse" /\ Returns /\ OnlyStatements(source)) =>
        /\ parser.diagnostics = <<>>
        /\ result.k = "Some"
        /\ NamesAndFlags(result.items) = ExpectedStatements(source)

\* parse() returns Some only when it has consumed the whole input
SomeOnlyAtEnd ==
    (entry = "parse" /\ Returns /\ result.k = "Some") => parser.pos = Len(source)

\* C28: when every top-level statement parses without error and the input
\* then ends, parse() returns Some of all the statements in source order
\* and pushes no diagnostic; and parse() returns Some only when the whole
\* input has been consumed.
C28_ParseReturnsWholeInput == AllStatementsReturned /\ SomeOnlyAtEnd

\* C29: when convert() has finished with successful() = true, every element
\* of hir is a Set whose target is a Named node, so that compile() of the
\* backend does not abort on it.
C29_BackendAcceptsHir ==
    (pc = "done" /\ successful) =>
        \A j \in 1..Len(hir) :
            /\ hir[j].k = "Set"
            /\ hir[j].l.k = "Named"
            /\ ~compile_aborts(hir[j])

(***************************************************************************)
(* Properties of the construct layout: totality.                           *)
(***************************************************************************)
\* C30: calculate_32bit_size and calculate_64bit_size return a value for
\* every construct and every C struct, without a division by zero or an
\* underflow in round, also for one without properties and for one with a
\* property of alignment 0 (Void).
C30_SizeIsTotal ==
    owner \in {"Construct", "CStruct"} => lpc \in {"loop", "done"}


====
